---- MODULE Spec2Model ----
(***************************************************************************)
(* A model of the copy-trading pipeline of polymarket-copytrader:          *)
(*   CopyTraderService  (electron/main/copyTrader.ts)  the scheduler, the  *)
(*                      per-address cursor and seen-set, the sizing rule;  *)
(*   PolymarketClient   (electron/main/secureStore.ts) ensureApprovals and *)
(*                      mirrorOrder;                                       *)
(*   GammaClient        (electron/preload/index.ts)    fetchFillsByAddress;*)
(*   the IPC handlers   (unnamed/part_005)             start and stop;     *)
(*   HighPerformanceCopyTrader (unnamed/part_002)      the batching engine.*)
(* One JavaScript macrotask is one action: a handler runs from the event   *)
(* that wakes it to its next await on I/O.  An await of a promise that     *)
(* needs no I/O resumes in a microtask, before any timer or IPC event, so  *)
(* such a continuation belongs to the same action.                         *)
(*                                                                         *)
(* Numbers with a fraction (sizes, prices, copyFactor) are counted in      *)
(* tenths: 15 stands for 1.5, 100 for 10.                                  *)
(***************************************************************************)
EXTENDS Integers, Sequences, FiniteSets, TLC

\* ---------------------------------------------------------------- bounds
NumAddrs == 2       \* watched addresses in settings.targetAddresses
MaxFills == 2       \* distinct fills the data API knows
MaxBatch == 2       \* fills in one fetch response
MaxInFlight == 2    \* ticks that may be suspended at the same time
MaxPending == 1     \* timer callbacks due and not yet run
MaxHpTrades == 3    \* copy trades the high-performance engine creates
MaxRequests == 2    \* start requests that may be in progress at the same time

VARIABLES
    settings,   \* CopySettings, fixed for the session
    dryRun,     \* PolymarketClient.dryRun
    clob,       \* PolymarketClient.clob is defined (ClobClient constructed)
    sdk,        \* PolymarketClient.sdk has an ensureApprovals function
    apiCreds,   \* the ClobClient has API credentials attached
    running,    \* CopyTraderService.running
    intervalId, \* CopyTraderService.intervalId is not null (timer armed)
    timers,     \* interval timers set and not cleared
    pending,    \* timer callbacks due and not yet run
    lastTimestampMsByAddress,  \* address -> cursor; a key is absent until written
    seenFillIdsByAddress,      \* address -> set of fill ids; a key is absent until set
    ticks,      \* slot -> the activation record of one call of tick()
    calls,      \* observation: <<address, fill id>> -> mirrorOrder calls made (saturates at 2)
    venue,      \* observation: kinds of calls made to the trading venue so far
    tokens,     \* observation: <<order, token>> pairs mirrorOrder returned in dry-run
    obs,        \* observation: what the last step did
    sizing,     \* observation: the last fill sized on its own, with its mirrored size
    ipc,        \* the start boundary: the window, the keychain, the request in progress
    http,       \* one call of GammaClient.fetchFillsByAddress
    hp          \* one HighPerformanceCopyTrader: its fields, its copy trades, its batches

vars == <<settings, dryRun, clob, sdk, apiCreds, running, intervalId, timers, pending,
          lastTimestampMsByAddress, seenFillIdsByAddress, ticks, calls, venue, tokens, obs,
          sizing, ipc, http, hp>>

\* what no step of a session changes: its configuration, and what lies outside it
config == <<settings, dryRun, clob, sdk, sizing, ipc, http, hp>>
observed == <<calls, venue, tokens>>

\* ------------------------------------------------------------- the data
Slots == DOMAIN ticks
FillIds == 1..MaxFills
AllAddresses == 1..NumAddrs
targetAddresses == settings.targetAddresses

\* The fill the data API reports under id i, already normalized: f1@100, f2@150, ...
GammaFill(i) ==
    [id |-> i, marketId |-> "m", outcomeId |-> "o",
     side |-> IF i % 2 = 0 THEN "sell" ELSE "buy",
     price |-> 5, size |-> 100, timestamp |-> 50 * (i + 1)]

\* The responses one fetch may bring: any sequence of at most MaxBatch fills, in any order.
Batches == UNION {[1..n -> {GammaFill(i) : i \in FillIds}] : n \in 0..MaxBatch}

Max(a, b) == IF a >= b THEN a ELSE b
Times(a, b) == (a * b) \div 10

\* record[key] ?? 0
CursorOf(rec, a) == IF a \in DOMAIN rec THEN rec[a] ELSE 0
\* map.get(key) ?? new Set()
SeenOf(map, a) == IF a \in DOMAIN map THEN map[a] ELSE {}
Put(map, a, v) == [k \in DOMAIN map \cup {a} |-> IF k = a THEN v ELSE map[k]]

IdleTick == [pc |-> "idle", idx |-> 0, since |-> 0, aggregated |-> <<>>, sub |-> 0,
             mpc |-> "none", nErr |-> 0, nAppr |-> 0]

\* What the last step did: its kind and the tick it ran; for a fetch that resolved, the
\* address, the cursor and the seen-set of the address before it, and the response; the
\* <<address, fill id>> pairs the step passed to mirrorOrder, as a set and in the order
\* of the calls, the bodies it posted to the orders endpoint, and whether running was
\* false then; the log events it sent to the window; and, when it ended a tick, how the
\* tick ended, how many error events the tick had sent, how many aggregated fills it
\* had not passed to mirrorOrder and how many times it had called ensureApprovals; and
\* how many of the log events were of the discovery kind ("Found N trade(s) ...").
Obs(kind, t) ==
    [kind |-> kind, tick |-> t, address |-> 0, prev |-> 0, before |-> {}, batch |-> <<>>,
     called |-> {}, order |-> <<>>, posted |-> <<>>, stopped |-> FALSE, logs |-> 0,
     ended |-> "", errs |-> 0, left |-> 0, appr |-> 0, found |-> 0]
Logged(o, n) == [o EXCEPT !.logs = @ + n]
NoObs == Obs("none", 0)

\* a start request that is not in progress
IdleRequest == [pc |-> "idle", gotKey |-> "none",
                payload |-> [targetAddresses |-> <<1>>, executionMode |-> "percent",
                             fixedSize |-> 0, copyFactor |-> 10, sellAllOnSell |-> FALSE,
                             maxSlippageBps |-> 100, dryRun |-> TRUE]]

\* the start boundary with no request in progress and no service created yet; req holds
\* the activations of the start handler, one of them here
IdleIpc == [win |-> TRUE, key |-> "valid", req |-> <<IdleRequest>>,
            outcome |-> "", services |-> 0, stopped |-> 0]

\* a list of a response body: absent, or present with the ids of its raw records
Absent == [has |-> FALSE, v |-> <<>>]
Present(l) == [has |-> TRUE, v |-> l]
\* a response with no body, and no response at all (status 0: a transport error)
NullBody == [kind |-> "null", self |-> <<>>, fills |-> Absent, trades |-> Absent]
NoResponse == [status |-> 0, body |-> NullBody]

\* no call of fetchFillsByAddress in progress; in a call: the candidate awaited, the
\* candidates requested so far, the last error caught (and, to tell it from the others,
\* the first), the last response received, and how the call ended, with the fills it
\* returned
IdleHttp == [pc |-> "idle", k |-> 0, requested |-> <<>>, lastError |-> "none",
             firstError |-> "none", last |-> NoResponse, result |-> "none", fills |-> <<>>]

\* a JavaScript number: NaN, or the number v (an integer here; copyFactor in tenths)
NaN == [nan |-> TRUE, v |-> 0]
Num(v) == [nan |-> FALSE, v |-> v]

\* part_002:146-181, 477: a HighPerformanceCopyTrader after construction. copies holds
\* the CopyTrade objects created so far (a queue holds their indices), batches the calls
\* of processWithConcurrency that await a chunk: the chunks and the one awaited.
\* successRate is kept as <<numerator, denominator>>. The fields that depend on the
\* clock (avgExecutionTime, tradesPerSecond, tradeCount) are left out. tradeCache holds
\* the ids of the trades cached; the trade of the n-th copy trade has id n.
NewHp ==
    [isRunning |-> FALSE, targetAddresses |-> {}, copyFactor |-> Num(10),
     maxSlippageBps |-> Num(100), dryRun |-> TRUE, useWebSocket |-> TRUE,
     batchSize |-> Num(50), maxConcurrentTrades |-> Num(10), tradeCache |-> {},
     copyTradeCache |-> {}, tradeQueue |-> <<>>,
     copyTradeQueue |-> <<>>, processingQueue |-> <<>>, copies |-> <<>>, batches |-> {},
     metrics |-> [totalTrades |-> 0, successRate |-> <<0, 1>>, totalVolume |-> Num(0)],
     pollingInterval |-> FALSE]

InFlight(t) == ticks[t].pc # "idle"
FreeSlots == {t \in Slots : ~InFlight(t)}
FreeSlot == CHOOSE t \in FreeSlots : \A u \in FreeSlots : t <= u

\* ------------------------------------------------- the sizing rule (tick)
\* copyTrader.ts:79
BaseSize(f, s) ==
    IF s.executionMode = "fixed" THEN s.fixedSize ELSE Times(f.size, s.copyFactor)

\* (mutant) line 80 without the sell-all override
MirrorSizeNoOverride(f, s) == BaseSize(f, s)

\* copyTrader.ts:80; the literal 1 is 10 tenths
MirrorSize(f, s) ==
    IF f.side = "sell" /\ s.sellAllOnSell THEN 10 ELSE BaseSize(f, s)

\* copyTrader.ts:81-87
OrderOf(f, s) ==
    [marketId |-> f.marketId, outcomeId |-> f.outcomeId, side |-> f.side,
     price |-> f.price, size |-> MirrorSize(f, s)]

\* ------------------------------------------------------ PolymarketClient
\* secureStore.ts:152: maxSlippageBps / 10000, kept as the fraction
Slippage(bps) == <<bps, 10000>>

\* secureStore.ts:154
DryRunToken(order, bps) ==
    [tag |-> "dry-run", marketId |-> order.marketId, outcomeId |-> order.outcomeId,
     side |-> order.side, size |-> order.size, price |-> order.price,
     slip |-> Slippage(bps)]

\* (mutant) ensureApprovals without the dry-run return of line 144
ApprovalsCallSdkAlways(dry, hasSdk) == hasSdk

\* secureStore.ts:144-147: ensureApprovals reaches the SDK call
ApprovalsCallSdk(dry, hasSdk) == ~dry /\ hasSdk

\* secureStore.ts:153: mirrorOrder returns the token before anything else
MirrorIsDry(dry) == dry

\* (mutant) the derivation attempted whether credentials are attached or not
FirstAwaitDeriveAlways(hasClob, hasCreds) == IF ~hasClob THEN "post" ELSE "derive"

\* (mutant) a live mirrorOrder that goes to the CLOB client whether there is one or not
FirstAwaitPrimary(hasClob, hasCreds) == IF ~hasCreds THEN "derive" ELSE "create"

\* secureStore.ts:157-192: the first await of a live mirrorOrder
FirstAwait(hasClob, hasCreds) ==
    IF ~hasClob THEN "post" ELSE IF ~hasCreds THEN "derive" ELSE "create"

\* secureStore.ts:161-168: the body of the raw POST
PostBody(order, bps) ==
    [marketId |-> order.marketId, outcomeId |-> order.outcomeId, side |-> order.side,
     price |-> order.price, size |-> order.size, slippage |-> Slippage(bps)]

\* ---------------------------------------------- the dedup loop of tick()
\* (mutant) the membership test of line 66 dropped
IsNewEveryTime(seen, f) == TRUE

\* copyTrader.ts:66
IsNew(seen, f) == f.id \notin seen

\* (mutant) the cursor assigned the fill's timestamp, without Math.max
AdvanceCursorToLast(cur, ts) == ts

\* copyTrader.ts:70
AdvanceCursor(cur, ts) == Max(cur, ts)

\* (mutant) a new fill put in front of the aggregated list
PushFront(agg, e) == <<e>> \o agg

\* copyTrader.ts:68
Push(agg, e) == Append(agg, e)

\* (mutant) the insertion of line 67 dropped
MarkSeenNot(seen, id) == seen

\* (mutant) a seen-set that holds the latest id only
MarkSeenLatest(seen, id) == {id}

\* copyTrader.ts:67
MarkSeen(seen, id) == seen \cup {id}

\* copyTrader.ts:65-71, from the k-th fill of the response on;
\* st = [seen, last, agg]: the seen-map, the cursor record, the tick's aggregated list
RECURSIVE ProcessFills(_, _, _, _)
ProcessFills(batch, k, a, st) ==
    IF k > Len(batch) THEN st
    ELSE LET f == batch[k]
             new == IsNew(SeenOf(st.seen, a), f)
             st1 == [seen |-> IF new THEN Put(st.seen, a, MarkSeen(SeenOf(st.seen, a), f.id))
                              ELSE st.seen,
                     agg |-> IF new THEN Push(st.agg, [fill |-> f, address |-> a])
                             ELSE st.agg,
                     last |-> Put(st.last, a, AdvanceCursor(CursorOf(st.last, a), f.timestamp))]
         IN ProcessFills(batch, k + 1, a, st1)

\* ------------------------------------------------------------------ Init
\* The sessions explored, as <<watched addresses, ticks that may be in flight at once>>:
\* every address with one tick at a time (each tick ends within the poll interval),
\* and one address with overlapping ticks.
Shapes == {<<NumAddrs, 1>>, <<1, MaxInFlight>>}

\* secureStore.ts:109-141: <<dryRun, clob constructed, sdk with ensureApprovals,
\* credentials attached>>; credentials are attached to a constructed clob only
ClientSetups ==
    {c \in BOOLEAN \X BOOLEAN \X BOOLEAN \X BOOLEAN : c[4] => c[2]}

\* everything but the settings, as it is after construction
Constructed ==
    /\ running = FALSE
    /\ intervalId = FALSE
    /\ timers = 0
    /\ pending = 0
    /\ lastTimestampMsByAddress = <<>>
    /\ seenFillIdsByAddress = <<>>
    /\ calls = [p \in AllAddresses \X FillIds |-> 0]
    /\ venue = {}
    /\ tokens = {}
    /\ obs = NoObs
    /\ sizing = <<>>
    /\ http = IdleHttp
    /\ hp = NewHp

Init ==
    /\ \E sh \in Shapes :
           /\ settings \in [targetAddresses : {[i \in 1..sh[1] |-> i]},
                            executionMode : {"percent"}, fixedSize : {50},
                            copyFactor : {15}, sellAllOnSell : {FALSE},
                            maxSlippageBps : {100}]
           /\ ticks = [t \in 1..sh[2] |-> IdleTick]
    /\ \E c \in ClientSetups :
           dryRun = c[1] /\ clob = c[2] /\ sdk = c[3] /\ apiCreds = c[4]
    /\ ipc = IdleIpc
    /\ Constructed

\* ------------------------------------------- tick(): the order loop, 78-93
Key(e) == <<e.address, e.fill.id>>
Sat(n) == IF n > 2 THEN 2 ELSE n
CountFrom(agg, k, p) == Cardinality({i \in k..Len(agg) : Key(agg[i]) = p})

\* tick() returns or rejects: its activation record is gone
Finish(t, tk, how, o) ==
    /\ ticks' = [ticks EXCEPT ![t] = IdleTick]
    /\ obs' = [o EXCEPT !.ended = how, !.errs = tk.nErr,
                         !.left = Len(tk.aggregated) - tk.sub, !.appr = tk.nAppr]

\* copyTrader.ts:34, 37 (.catch) and 96-99: the tick rejected and the error is reported
Reject(t, tk, o) == Finish(t, [tk EXCEPT !.nErr = @ + 1], "rejected", o)

\* copyTrader.ts:78-93 with secureStore.ts:150-155: in dry-run every mirrorOrder
\* returns its token without I/O, so the whole loop runs in this step
DryOrders(t, tk, k, o) ==
    LET rest == k..Len(tk.aggregated)
    IN /\ Finish(t, [tk EXCEPT !.sub = Len(tk.aggregated)], "done",
                 Logged([o EXCEPT !.called = @ \cup {Key(tk.aggregated[i]) : i \in rest},
                                  !.order = @ \o [i \in 1..(Len(tk.aggregated) - k + 1) |->
                                                     Key(tk.aggregated[k + i - 1])],
                                  !.stopped = ~running], Cardinality(rest)))
       /\ calls' = [p \in DOMAIN calls |-> Sat(calls[p] + CountFrom(tk.aggregated, k, p))]
       /\ tokens' = tokens \cup
              {<<OrderOf(tk.aggregated[i].fill, settings),
                 DryRunToken(OrderOf(tk.aggregated[i].fill, settings),
                             settings.maxSlippageBps)>> : i \in rest}
       /\ UNCHANGED venue

\* copyTrader.ts:81 with secureStore.ts:156-195: a live mirrorOrder runs to its first await
LiveOrder(t, tk, k, o) ==
    LET aw == FirstAwait(clob, apiCreds)
    IN /\ ticks' = [ticks EXCEPT ![t] = [tk EXCEPT !.pc = "order", !.sub = k, !.mpc = aw]]
       /\ calls' = [calls EXCEPT ![Key(tk.aggregated[k])] = Sat(@ + 1)]
       /\ venue' = venue \cup {aw}
       /\ obs' = [o EXCEPT !.called = @ \cup {Key(tk.aggregated[k])},
                            !.order = Append(@, Key(tk.aggregated[k])),
                            !.posted = IF aw = "post"
                                       THEN Append(@, PostBody(OrderOf(tk.aggregated[k].fill,
                                                                       settings),
                                                               settings.maxSlippageBps))
                                       ELSE @,
                            !.stopped = ~running]
       /\ UNCHANGED tokens

\* copyTrader.ts:78-81: the k-th pass of the order loop
BeginOrder(t, tk, k, o) ==
    IF MirrorIsDry(dryRun) THEN DryOrders(t, tk, k, o) ELSE LiveOrder(t, tk, k, o)

\* copyTrader.ts:88-93: mirrorOrder returned; log, then the next pass or the end
NextOrder(t, tk, o) ==
    IF tk.sub < Len(tk.aggregated)
    THEN BeginOrder(t, tk, tk.sub + 1, Logged(o, 1))
    ELSE Finish(t, tk, "done", Logged(o, 1)) /\ UNCHANGED observed

\* copyTrader.ts:73-77: after the address loop
AfterLoop(t, tk, o) ==
    IF Len(tk.aggregated) = 0
    THEN Finish(t, tk, "done", Logged(o, 1)) /\ UNCHANGED observed
    ELSE IF ApprovalsCallSdk(dryRun, sdk)
         THEN /\ ticks' = [ticks EXCEPT ![t] = [tk EXCEPT !.pc = "approvals", !.nAppr = @ + 1]]
              /\ venue' = venue \cup {"ensureApprovals"}
              /\ obs' = o
              /\ UNCHANGED <<calls, tokens>>
         ELSE BeginOrder(t, [tk EXCEPT !.nAppr = @ + 1], 1, o)

\* ----------------------------------------- tick(): the address loop, 52-72
\* copyTrader.ts:53-59: the i-th pass up to its await of the fetch
StartIteration(t, tk, i, st, o) ==
    LET a == targetAddresses[i]
    IN /\ ticks' = [ticks EXCEPT ![t] =
                      [tk EXCEPT !.pc = "fetch", !.idx = i, !.since = CursorOf(st.last, a),
                                 !.aggregated = st.agg]]
       /\ seenFillIdsByAddress' = Put(st.seen, a, SeenOf(st.seen, a))
       /\ lastTimestampMsByAddress' = st.last
       /\ obs' = Logged(o, 1)
       /\ UNCHANGED observed

\* (mutant) an address loop left as soon as an address brought a new fill
NextAddressUntilNew(t, tk, st, o) ==
    IF tk.idx < Len(targetAddresses) /\ st.agg = <<>>
    THEN StartIteration(t, tk, tk.idx + 1, st, o)
    ELSE /\ seenFillIdsByAddress' = st.seen
         /\ lastTimestampMsByAddress' = st.last
         /\ AfterLoop(t, [tk EXCEPT !.aggregated = st.agg], o)

\* copyTrader.ts:52, 72: the next address, or the end of the loop
NextAddress(t, tk, st, o) ==
    IF tk.idx < Len(targetAddresses)
    THEN StartIteration(t, tk, tk.idx + 1, st, o)
    ELSE /\ seenFillIdsByAddress' = st.seen
         /\ lastTimestampMsByAddress' = st.last
         /\ AfterLoop(t, [tk EXCEPT !.aggregated = st.agg], o)

\* (mutant) tick() without the check of line 50
TickRunsAlways(run) == TRUE

\* (mutant) tick() with a single-flight guard added to the check of line 50
TickRunsAlone(run) == run /\ \A t \in Slots : ~InFlight(t)

\* copyTrader.ts:50: tick() goes on only while the service runs
TickRuns(run) == run

\* (mutant) the fetch of line 59 outside any try: the error rejects the tick
FetchErrorRejects(t, tk, st, o) ==
    /\ seenFillIdsByAddress' = st.seen
    /\ lastTimestampMsByAddress' = st.last
    /\ Reject(t, tk, o)
    /\ UNCHANGED observed

\* (mutant) a catch that also resets the cursor of the address whose fetch failed
OnFetchErrorResetsCursor(t, tk, st, o) ==
    NextAddress(t, [tk EXCEPT !.nErr = @ + 1],
                [st EXCEPT !.last = Put(st.last, targetAddresses[tk.idx], 0)], o)

\* copyTrader.ts:60-63: the catch reports the error and goes on to the next address
OnFetchError(t, tk, st, o) == NextAddress(t, [tk EXCEPT !.nErr = @ + 1], st, o)

\* copyTrader.ts:49-51: tick() from its entry, run being the value of running
TickEnter(t, run, o) ==
    IF ~TickRuns(run)
    THEN obs' = [o EXCEPT !.kind = "skip"]
         /\ UNCHANGED <<lastTimestampMsByAddress, seenFillIdsByAddress, ticks, observed>>
    ELSE StartIteration(t, IdleTick, 1,
             [seen |-> seenFillIdsByAddress, last |-> lastTimestampMsByAddress, agg |-> <<>>], o)

\* --------------------------------------------------------------- actions
\* (mutant) start() without the return of line 32
StartNeverNoop(run) == FALSE

\* copyTrader.ts:32
StartIsNoop(run) == run

\* (mutant) the immediate tick called before running is set
StartTickBeforeRunning(t, o) == TickEnter(t, running, o)

\* copyTrader.ts:37, after running was set at line 33
StartTick(t, o) == TickEnter(t, TRUE, o)

\* copyTrader.ts:31-38
Start ==
    /\ StartIsNoop(running) \/ FreeSlots # {}
    /\ UNCHANGED <<config, apiCreds, pending>>
    /\ IF StartIsNoop(running)
       THEN /\ obs' = Obs("startAgain", 0)
            /\ UNCHANGED <<running, intervalId, timers, lastTimestampMsByAddress,
                           seenFillIdsByAddress, ticks, observed>>
       ELSE /\ running' = TRUE
            /\ intervalId' = TRUE
            /\ timers' = timers + 1
            /\ StartTick(FreeSlot, Logged(Obs("start", FreeSlot), 1))

\* (mutant) stop() that also drops the ticks in flight
StopAndCancel ==
    /\ running' = FALSE
    /\ intervalId' = FALSE
    /\ timers' = IF intervalId THEN timers - 1 ELSE timers
    /\ ticks' = [t \in Slots |-> IdleTick]
    /\ obs' = Logged(Obs("stop", 0), 1)
    /\ UNCHANGED <<config, apiCreds, pending, lastTimestampMsByAddress,
                   seenFillIdsByAddress, observed>>

\* copyTrader.ts:40-47. A callback that is already due when clearInterval runs is kept
\* (pending is left alone): whether the runtime still delivers it is not decided here,
\* and the check of line 50 is what answers it if it is delivered.
Stop ==
    /\ running' = FALSE
    /\ intervalId' = FALSE
    /\ timers' = IF intervalId THEN timers - 1 ELSE timers
    /\ obs' = Logged(Obs("stop", 0), 1)
    /\ UNCHANGED <<config, apiCreds, pending, lastTimestampMsByAddress,
                   seenFillIdsByAddress, ticks, observed>>

\* the period of setInterval (copyTrader.ts:34) elapses: a callback is due
TimerElapse ==
    /\ timers > 0
    /\ pending < MaxPending
    /\ pending' = pending + 1
    /\ obs' = NoObs
    /\ UNCHANGED <<config, apiCreds, running, intervalId, timers, lastTimestampMsByAddress,
                   seenFillIdsByAddress, ticks, observed>>

\* copyTrader.ts:34: the callback runs tick()
TimerTick ==
    /\ pending > 0
    /\ running => FreeSlots # {}
    /\ pending' = pending - 1
    /\ UNCHANGED <<config, apiCreds, running, intervalId, timers>>
    /\ TickEnter(IF FreeSlots # {} THEN FreeSlot ELSE 0, running,
                 Obs("tick", IF FreeSlots # {} THEN FreeSlot ELSE 0))

\* copyTrader.ts:59, 64-72: the fetch resolves with a response; line 64 logs once,
\* with the length of the response
FetchReturn(t, batch) ==
    LET tk == ticks[t]
        a == targetAddresses[tk.idx]
        st == ProcessFills(batch, 1, a,
                  [seen |-> seenFillIdsByAddress, last |-> lastTimestampMsByAddress,
                   agg |-> tk.aggregated])
    IN /\ tk.pc = "fetch"
       /\ NextAddress(t, tk, st,
              Logged([Obs("fetch", t) EXCEPT !.address = a, !.batch = batch,
                                             !.prev = CursorOf(lastTimestampMsByAddress, a),
                                             !.before = SeenOf(seenFillIdsByAddress, a),
                                             !.found = 1], 1))
       /\ UNCHANGED <<config, apiCreds, running, intervalId, timers, pending>>

\* copyTrader.ts:60-63: the fetch rejects
FetchThrow(t) ==
    LET tk == ticks[t]
        a == targetAddresses[tk.idx]
    IN /\ tk.pc = "fetch"
       /\ OnFetchError(t, tk,
              [seen |-> seenFillIdsByAddress, last |-> lastTimestampMsByAddress,
               agg |-> tk.aggregated],
              [Obs("fetchThrow", t) EXCEPT !.address = a])
       /\ UNCHANGED <<config, apiCreds, running, intervalId, timers, pending>>

\* (mutant) a rejection of ensureApprovals swallowed: the order loop runs all the same
ApprovalsErrorSwallowed(t, tk, o) == BeginOrder(t, tk, 1, o)

\* copyTrader.ts:77: the rejection of ensureApprovals leaves tick()
OnApprovalsError(t, tk, o) == Reject(t, tk, o) /\ UNCHANGED observed

\* copyTrader.ts:77 with secureStore.ts:147: sdk.ensureApprovals() resolves or rejects
ApprovalsReturn(t, ok) ==
    LET tk == ticks[t]
    IN /\ tk.pc = "approvals"
       /\ IF ok THEN BeginOrder(t, tk, 1, Obs("approvals", t))
          ELSE OnApprovalsError(t, tk, Obs("approvalsThrow", t))
       /\ UNCHANGED <<config, apiCreds, running, intervalId, timers, pending,
                      lastTimestampMsByAddress, seenFillIdsByAddress>>

\* (mutant) a failed submission tried again from the start of the live path
RetryOrder(t, tk, o) ==
    /\ ticks' = [ticks EXCEPT ![t].mpc = FirstAwait(clob, apiCreds)]
    /\ venue' = venue \cup {FirstAwait(clob, apiCreds)}
    /\ obs' = o
    /\ UNCHANGED <<calls, tokens>>

\* secureStore.ts:204-206 with copyTrader.ts:81: the error is wrapped and thrown, and
\* nothing in tick() catches it
OnOrderError(t, tk, o) == Reject(t, tk, o) /\ UNCHANGED observed

\* secureStore.ts:159-178, 204-206: the raw POST resolves or rejects
PostReturn(t, ok) ==
    LET tk == ticks[t]
    IN /\ tk.pc = "order" /\ tk.mpc = "post"
       /\ IF ok THEN NextOrder(t, tk, Obs("orderDone", t))
          ELSE OnOrderError(t, tk, Obs("orderThrow", t))
       /\ UNCHANGED <<config, apiCreds, running, intervalId, timers, pending,
                      lastTimestampMsByAddress, seenFillIdsByAddress>>

\* secureStore.ts:186-195: createOrDeriveApiCreds resolves (the credentials are
\* attached) or rejects (swallowed); createOrder is called either way
DeriveReturn(t, ok) ==
    LET tk == ticks[t]
    IN /\ tk.pc = "order" /\ tk.mpc = "derive"
       /\ apiCreds' = (apiCreds \/ ok)
       /\ ticks' = [ticks EXCEPT ![t].mpc = "create"]
       /\ venue' = venue \cup {"create"}
       /\ obs' = Obs(IF ok THEN "derive" ELSE "deriveThrow", t)
       /\ UNCHANGED <<config, running, intervalId, timers, pending, lastTimestampMsByAddress,
                      seenFillIdsByAddress, calls, tokens>>

\* secureStore.ts:195-202, 204-206: createOrder resolves (postOrder is called) or rejects
CreateReturn(t, ok) ==
    LET tk == ticks[t]
    IN /\ tk.pc = "order" /\ tk.mpc = "create"
       /\ IF ok THEN /\ ticks' = [ticks EXCEPT ![t].mpc = "postOrder"]
                     /\ venue' = venue \cup {"postOrder"}
                     /\ obs' = Obs("create", t)
                     /\ UNCHANGED <<calls, tokens>>
          ELSE OnOrderError(t, tk, Obs("orderThrow", t))
       /\ UNCHANGED <<config, apiCreds, running, intervalId, timers, pending,
                      lastTimestampMsByAddress, seenFillIdsByAddress>>

\* secureStore.ts:202-206: postOrder resolves or rejects
PostOrderReturn(t, ok) ==
    LET tk == ticks[t]
    IN /\ tk.pc = "order" /\ tk.mpc = "postOrder"
       /\ IF ok THEN NextOrder(t, tk, Obs("orderDone", t))
          ELSE OnOrderError(t, tk, Obs("orderThrow", t))
       /\ UNCHANGED <<config, apiCreds, running, intervalId, timers, pending,
                      lastTimestampMsByAddress, seenFillIdsByAddress>>

Next ==
    \/ Start
    \/ Stop
    \/ TimerElapse
    \/ TimerTick
    \/ \E t \in Slots, batch \in Batches : FetchReturn(t, batch)
    \/ \E t \in Slots : FetchThrow(t)
    \/ \E t \in Slots, ok \in BOOLEAN : ApprovalsReturn(t, ok)
    \/ \E t \in Slots, ok \in BOOLEAN : PostReturn(t, ok)
    \/ \E t \in Slots, ok \in BOOLEAN : DeriveReturn(t, ok)
    \/ \E t \in Slots, ok \in BOOLEAN : CreateReturn(t, ok)
    \/ \E t \in Slots, ok \in BOOLEAN : PostOrderReturn(t, ok)

Spec == Init /\ [][Next]_vars

\* ------------------------------------------- the sizing rule on its own
\* The settings and fills the sizing rule is tried on: both modes, sell-all on and off,
\* copy factors from 0 to 5 (0, 0.5, 1, 1.5, 5) and whole sizes.
SizingSettings ==
    [targetAddresses : {<<1>>}, executionMode : {"percent", "fixed"}, fixedSize : {0, 50},
     copyFactor : {0, 5, 10, 15, 50}, sellAllOnSell : BOOLEAN, maxSlippageBps : {100}]
SizingFills ==
    {[GammaFill(1) EXCEPT !.side = sd, !.size = sz] : sd \in {"buy", "sell"}, sz \in {0, 10, 100}}

InitSizing ==
    /\ settings \in SizingSettings
    /\ dryRun = TRUE /\ clob = FALSE /\ sdk = FALSE /\ apiCreds = FALSE
    /\ ticks = [t \in 1..1 |-> IdleTick]
    /\ ipc = IdleIpc
    /\ Constructed

\* copyTrader.ts:79-80 applied to one fill
SizeOne(f) ==
    /\ sizing' = [fill |-> f, size |-> MirrorSize(f, settings)]
    /\ UNCHANGED <<settings, dryRun, clob, sdk, apiCreds, running, intervalId, timers,
                   pending, lastTimestampMsByAddress, seenFillIdsByAddress, ticks, calls,
                   venue, tokens, obs, ipc, http, hp>>

NextSizing == \E f \in SizingFills : SizeOne(f)

SpecSizing == InitSizing /\ [][NextSizing]_vars

\* ------------------------------------ GammaClient.fetchFillsByAddress alone
\* preload/index.ts:173-222: the candidates in list order: the path, how the address is
\* passed, and the key under which normalize looks for the list
attempts ==
    << [url |-> "/fills", by |-> "address", list |-> "fills"],
       [url |-> "/trades", by |-> "address", list |-> "trades"],
       [url |-> "/v1/trades", by |-> "address", list |-> "trades"],
       [url |-> "/v1/fills", by |-> "address", list |-> "fills"],
       [url |-> "/fills", by |-> "walletAddress", list |-> "fills"],
       [url |-> "/v1/trades", by |-> "address", list |-> "trades"],
       [url |-> "/v1/trades", by |-> "walletAddress", list |-> "trades"],
       [url |-> "/trades", by |-> "address", list |-> "trades"],
       [url |-> "/fills/address/", by |-> "path", list |-> "fills"],
       [url |-> "/trades/wallet/", by |-> "path", list |-> "trades"] >>

\* The lists a response body may carry, as the ids of its raw records.
RawLists == {<<>>, <<1>>, <<2, 1>>}

\* The response bodies tried: no body (null or undefined), a bare array, a string (a body
\* that is not JSON), and an object with a fills list, a trades list, both or neither.
Bodies ==
    {NullBody, [kind |-> "string", self |-> <<>>, fills |-> Absent, trades |-> Absent]}
    \cup {[kind |-> "array", self |-> l, fills |-> Absent, trades |-> Absent] : l \in RawLists}
    \cup {[kind |-> "object", self |-> <<>>, fills |-> f, trades |-> t] :
             f \in {Absent, Present(<<1>>), Present(<<2, 1>>)},
             t \in {Absent, Present(<<>>), Present(<<2>>)}}

\* What axios.get brings back: a transport error (no response), or a status with a body;
\* validateStatus accepts every status (line 234).
Statuses == {200, 401, 404, 500}
Responses ==
    {NoResponse} \cup {[status |-> s, body |-> b] : s \in Statuses, b \in Bodies}

\* preload/index.ts:176 and its likes: data?.<list> ?? data ?? []; the value is an array
\* (with its raw records) or something that is no array
Normalize(att, body) ==
    IF body.kind = "object" /\ body[att.list].has
    THEN [isArray |-> TRUE, items |-> body[att.list].v]
    ELSE IF body.kind = "null" THEN [isArray |-> TRUE, items |-> <<>>]
    ELSE IF body.kind = "array" THEN [isArray |-> TRUE, items |-> body.self]
    ELSE [isArray |-> FALSE, items |-> <<>>]

\* preload/index.ts:239-258: the raw records mapped to fills
MapFills(items) == [i \in 1..Len(items) |-> GammaFill(items[i])]

\* preload/index.ts:166-227: the call builds the candidates and sends the first request
FetchCall ==
    /\ http.pc # "get"
    /\ http' = [IdleHttp EXCEPT !.pc = "get", !.k = 1, !.requested = <<1>>]
    /\ UNCHANGED <<settings, dryRun, clob, sdk, apiCreds, running, intervalId, timers,
                   pending, lastTimestampMsByAddress, seenFillIdsByAddress, ticks, calls,
                   venue, tokens, obs, sizing, ipc, hp>>

\* (mutant) the first error kept
KeepFirstError(prev, err) == IF prev = "none" THEN err ELSE prev

\* preload/index.ts:260
LastError(prev, err) == err

\* preload/index.ts:225, 259-263: the candidate failed with err after the response r; the
\* next one is requested, or the call throws the last error
NextAttempt(r, err) ==
    IF http.k < Len(attempts)
    THEN http' = [http EXCEPT !.k = @ + 1, !.requested = Append(@, http.k + 1),
                              !.lastError = LastError(@, err), !.last = r,
                              !.firstError = IF @ = "none" THEN err ELSE @]
    ELSE http' = [http EXCEPT !.pc = "done", !.lastError = LastError(@, err), !.last = r,
                              !.firstError = IF @ = "none" THEN err ELSE @,
                              !.result = "throw"]

\* (mutant) every response read with the first candidate's normalize
AttemptFirst(k) == attempts[1]

\* preload/index.ts:225, 238: the candidate whose response is read
AttemptOf(k) == attempts[k]

\* preload/index.ts:227-261: the response of the k-th candidate arrives
HttpResponse(r) ==
    /\ http.pc = "get"
    /\ IF r.status = 0 THEN NextAttempt(r, "transport error")
       ELSE IF r.status = 401 THEN NextAttempt(r, "Unauthorized (401) from data source")
       ELSE IF r.status = 404 THEN NextAttempt(r, "Not found (404)")
       ELSE LET raw == Normalize(AttemptOf(http.k), r.body)
            IN IF raw.isArray
               THEN http' = [http EXCEPT !.pc = "done", !.result = "return",
                                         !.last = r, !.fills = MapFills(raw.items)]
               ELSE NextAttempt(r, "TypeError: raw.map is not a function")
    /\ UNCHANGED <<settings, dryRun, clob, sdk, apiCreds, running, intervalId, timers,
                   pending, lastTimestampMsByAddress, seenFillIdsByAddress, ticks, calls,
                   venue, tokens, obs, sizing, ipc, hp>>

InitFetch ==
    /\ settings \in SizingSettings
    /\ settings.executionMode = "percent" /\ settings.fixedSize = 50
    /\ settings.copyFactor = 15 /\ ~settings.sellAllOnSell
    /\ dryRun = TRUE /\ clob = FALSE /\ sdk = FALSE /\ apiCreds = FALSE
    /\ ticks = [t \in 1..1 |-> IdleTick]
    /\ ipc = IdleIpc
    /\ Constructed

NextFetch ==
    \/ FetchCall
    \/ \E r \in Responses : HttpResponse(r)

SpecFetch == InitFetch /\ [][NextFetch]_vars

\* ------------------------------- the id of a normalized fill, 245-247 alone
\* The trades of one address at the venue: two of them, each in one of two transactions
\* and on one of two assets (a transaction may fill several orders on one asset).
TxNames == {"h1", "h2"}
AssetNames == {"t1", "t2"}
ExplicitId(k) == IF k = 1 THEN "a1" ELSE "a2"
ExplicitFillId(k) == IF k = 1 THEN "b1" ELSE "b2"
ExplicitTradeId(k) == IF k = 1 THEN "c1" ELSE "c2"

\* a field the payload does not have
Undefined == [has |-> FALSE, v |-> ""]

\* The raw records a data source may deliver for the trade k: each field the mapping
\* reads for the id is there or not (a partial payload); fill names the trade the
\* record is about and is not a field of the payload.
RawRecordsOf(k) ==
    [fill : {k},
     id : {Undefined, Present(ExplicitId(k))},
     fillId : {Undefined, Present(ExplicitFillId(k))},
     tradeId : {Undefined, Present(ExplicitTradeId(k))},
     transactionHash : {Undefined} \cup {Present(h) : h \in TxNames},
     txHash : {Undefined, Present("h1")},
     asset : {Undefined} \cup {Present(t) : t \in AssetNames},
     marketId : {Undefined, Present("m1")}]

\* The raw lists mapped: a record of the first trade followed by the same record again
\* or by a record of the second trade.
RawPairs ==
    {<<r1, r2>> : r1 \in RawRecordsOf(1), r2 \in RawRecordsOf(2)}
    \cup {<<r, r>> : r \in RawRecordsOf(1)}

\* a ?? b
Coalesce(a, b) == IF a.has THEN a ELSE b

\* ${x ?? ''} in a template string
Str(x) == IF x.has THEN x.v ELSE ""

\* preload/index.ts:245-247
FillIdOf(f) ==
    LET explicit == Coalesce(f.id, Coalesce(f.fillId, f.tradeId))
    IN IF explicit.has THEN explicit.v
       ELSE Str(Coalesce(f.transactionHash, f.txHash)) \o "-"
                \o Str(Coalesce(f.asset, f.marketId))

\* preload/index.ts:238-258: a response whose list is items arrives and is mapped
HttpRawResponse(items) ==
    /\ http.pc = "get"
    /\ http' = [http EXCEPT !.pc = "done", !.result = "return",
                            !.last = [status |-> 200,
                                      body |-> [kind |-> "array", self |-> items,
                                                fills |-> Absent, trades |-> Absent]],
                            !.fills = [i \in 1..Len(items) |-> [id |-> FillIdOf(items[i])]]]
    /\ UNCHANGED <<settings, dryRun, clob, sdk, apiCreds, running, intervalId, timers,
                   pending, lastTimestampMsByAddress, seenFillIdsByAddress, ticks, calls,
                   venue, tokens, obs, sizing, ipc, hp>>

NextNormalize ==
    \/ FetchCall
    \/ http.pc = "get" /\ \E items \in RawPairs : HttpRawResponse(items)

InitNormalize == InitFetch /\ settings.maxSlippageBps = 100

SpecNormalize == InitNormalize /\ [][NextNormalize]_vars

\* ------------------------------------------ the start and stop IPC handlers
\* The payloads of copytrader:start tried: a copy factor of 1.5 with 100 basis points of
\* slippage, of 6 with 2000 and of -1 with 5; both modes, dry-run and live.
Payloads ==
    {p \in [targetAddresses : {<<1>>}, executionMode : {"percent", "fixed"},
            fixedSize : {50}, copyFactor : {-10, 15, 60}, sellAllOnSell : {FALSE},
            maxSlippageBps : {5, 100, 2000}, dryRun : BOOLEAN] :
        <<p.copyFactor, p.maxSlippageBps>> \in {<<15, 100>>, <<60, 2000>>, <<-10, 5>>}}

\* part_005:387: the CopySettings the service reads from the payload
SettingsOf(payload) ==
    [targetAddresses |-> payload.targetAddresses, executionMode |-> payload.executionMode,
     fixedSize |-> payload.fixedSize, copyFactor |-> payload.copyFactor,
     sellAllOnSell |-> payload.sellAllOnSell, maxSlippageBps |-> payload.maxSlippageBps]

\* all of the session and of its client, and the fetch call, left as they are
SessionUnchanged ==
    UNCHANGED <<settings, dryRun, clob, sdk, apiCreds, running, intervalId, timers, pending,
                lastTimestampMsByAddress, seenFillIdsByAddress, ticks, calls, venue, tokens,
                sizing, http, hp>>

\* the activations of the start handler, and the one a new request takes
Requests == DOMAIN ipc.req
FreeRequest == CHOOSE r \in Requests :
                   ipc.req[r].pc = "idle" /\ \A q \in 1..(r - 1) : ipc.req[q].pc # "idle"

\* part_005:358-372: the start request arrives; the window check, then the first
\* keychain read is awaited
IpcStart(payload) ==
    /\ \E r \in Requests : ipc.req[r].pc = "idle"
    /\ IF ~ipc.win
       THEN ipc' = [ipc EXCEPT !.outcome = "failed: Window not ready"]
       ELSE ipc' = [ipc EXCEPT !.req[FreeRequest] = [IdleRequest EXCEPT !.pc = "key",
                                                                      !.payload = payload],
                               !.outcome = ""]
    /\ obs' = NoObs
    /\ SessionUnchanged

\* part_005:372-373: the private key is read; the API key is awaited
IpcKeyRead(r) ==
    /\ ipc.req[r].pc = "key"
    /\ ipc' = [ipc EXCEPT !.req[r].pc = "apiKey", !.req[r].gotKey = ipc.key]
    /\ obs' = NoObs
    /\ SessionUnchanged

\* part_005:373-374: the API key is read; the API credentials are awaited
IpcApiKeyRead(r) ==
    /\ ipc.req[r].pc = "apiKey"
    /\ ipc' = [ipc EXCEPT !.req[r].pc = "creds"]
    /\ obs' = NoObs
    /\ SessionUnchanged

\* (mutant) the handler without the check of line 375 and with a key that always parses
KeyAlwaysUsable(key) == TRUE

\* part_005:375-376: a key was read and parseWalletFromInput accepts it
KeyUsable(key) == key = "valid"

\* (mutant) the handler without the service?.stop() of line 386: the timer of the
\* previous service stays armed
KeepPrevious(n, armed, tm) == tm

\* part_005:386 with copyTrader.ts:40-46: the timers armed once the previous service,
\* if there is one, has been stopped
StopPrevious(n, armed, tm) == IF n > 0 /\ armed THEN tm - 1 ELSE tm

\* (mutant) a new service that goes on with the seen-sets of the previous one
SeenCarriedOver(previous) == previous

\* copyTrader.ts:18-19: the maps of a new service are empty
NewSeenFillIds(previous) == <<>>
NewLastTimestamps(previous) == <<>>

\* part_005:374-389: the credentials are read (hasCreds) and the rest of the handler runs:
\* it throws without a usable key; otherwise it constructs the clients (c is what the
\* PolymarketClient constructor managed to build), stops the previous service, creates
\* the new one and starts it, which runs the first tick up to its fetch. A tick of the
\* previous service that is still in flight works on the previous service's maps and
\* client: it is no longer followed.
IpcCredsRead(r, hasCreds, c) ==
    LET rq == ipc.req[r]
    IN /\ rq.pc = "creds"
       /\ IF ~KeyUsable(rq.gotKey)
          THEN /\ ipc' = [ipc EXCEPT !.req[r] = IdleRequest,
                                     !.outcome = IF rq.gotKey = "none"
                                                 THEN "failed: No private key stored"
                                                 ELSE "failed: Invalid private key"]
               /\ obs' = Obs("ipcFailed", 0)
               /\ SessionUnchanged
          ELSE /\ c[1] = rq.payload.dryRun
               /\ c[4] => hasCreds
               /\ ipc' = [ipc EXCEPT !.req[r] = IdleRequest,
                                     !.outcome = "ok", !.services = 1,
                                     !.stopped = IF ipc.services > 0 THEN 1 ELSE 0]
               /\ dryRun' = c[1] /\ clob' = c[2] /\ sdk' = c[3] /\ apiCreds' = c[4]
               /\ settings' = SettingsOf(rq.payload)
               /\ running' = TRUE
               /\ intervalId' = TRUE
               /\ timers' = StopPrevious(ipc.services, intervalId, timers) + 1
               /\ pending' = 0
               /\ ticks' = [ticks EXCEPT ![1] = [IdleTick EXCEPT !.pc = "fetch", !.idx = 1]]
               /\ seenFillIdsByAddress' =
                      Put(NewSeenFillIds(seenFillIdsByAddress),
                          rq.payload.targetAddresses[1],
                          SeenOf(NewSeenFillIds(seenFillIdsByAddress),
                                 rq.payload.targetAddresses[1]))
               /\ lastTimestampMsByAddress' = NewLastTimestamps(lastTimestampMsByAddress)
               /\ obs' = Logged(Obs("start", 1), IF ipc.services > 0 THEN 3 ELSE 2)
               /\ sizing' = <<>>
               /\ tokens' = {}
               /\ UNCHANGED <<calls, venue, http, hp>>

\* part_005:392-395
IpcStop ==
    /\ ipc.services > 0
    /\ Stop

\* part_005:170-179: a key is saved (only one that parses, line 171) or deleted
IpcSetKey(key) ==
    /\ ipc' = [ipc EXCEPT !.key = key]
    /\ ipc.key # key
    /\ obs' = NoObs
    /\ SessionUnchanged

\* copyTrader.ts:79-87 with secureStore.ts:152-154: the running service sizes a fill and
\* passes the order to mirrorOrder, which in dry-run returns its token
IpcOrder(f) ==
    /\ ipc.services > 0
    /\ sizing' = [fill |-> f, size |-> MirrorSize(f, settings)]
    /\ tokens' = IF MirrorIsDry(dryRun)
                 THEN {<<OrderOf(f, settings),
                         DryRunToken(OrderOf(f, settings), settings.maxSlippageBps)>>}
                 ELSE tokens
    /\ obs' = Obs("order", 1)
    /\ UNCHANGED <<settings, dryRun, clob, sdk, apiCreds, running, intervalId, timers,
                   pending, lastTimestampMsByAddress, seenFillIdsByAddress, ticks, calls,
                   venue, ipc, http, hp>>

InitIpc ==
    /\ settings \in SizingSettings
    /\ settings.executionMode = "percent" /\ settings.fixedSize = 50
    /\ settings.copyFactor = 15 /\ ~settings.sellAllOnSell
    /\ dryRun = TRUE /\ clob = FALSE /\ sdk = FALSE /\ apiCreds = FALSE
    /\ ticks = [t \in 1..1 |-> IdleTick]
    /\ \E w \in BOOLEAN, key \in {"none", "valid", "bad"} :
           ipc = [IdleIpc EXCEPT !.win = w, !.key = key]
    /\ Constructed

NextIpc ==
    \/ \E payload \in Payloads : IpcStart(payload)
    \/ \E r \in Requests : IpcKeyRead(r)
    \/ \E r \in Requests : IpcApiKeyRead(r)
    \/ \E r \in Requests, hasCreds \in BOOLEAN, c \in ClientSetups :
           IpcCredsRead(r, hasCreds, c)
    \/ IpcStop
    \/ \E key \in {"none", "valid"} : IpcSetKey(key)
    \/ \E f \in {GammaFill(1)} : IpcOrder(f)

SpecIpc == InitIpc /\ [][NextIpc]_vars

\* ------------------------- sessions: the handlers with the ticks they start
\* Start requests may overlap (each awaits three keychain reads) and every service
\* started polls every address: dry-run sessions on all the addresses, one tick at a time.
SessionPayloads ==
    {p \in [targetAddresses : {[i \in 1..NumAddrs |-> i]}, executionMode : {"percent"},
            fixedSize : {50}, copyFactor : {15}, sellAllOnSell : {FALSE},
            maxSlippageBps : {100}, dryRun : {TRUE}] : TRUE}

\* the responses a fetch may bring in these sessions: nothing, or the one fill there is
SessionBatches == {<<>>, <<GammaFill(1)>>}

\* secureStore.ts:109-141: what the constructor builds for a dry-run payload here
SessionClients == {<<TRUE, FALSE, FALSE, FALSE>>}

InitSession ==
    /\ settings \in SizingSettings
    /\ settings.executionMode = "percent" /\ settings.fixedSize = 50
    /\ settings.copyFactor = 15 /\ ~settings.sellAllOnSell
    /\ dryRun = TRUE /\ clob = FALSE /\ sdk = FALSE /\ apiCreds = FALSE
    /\ ticks = [t \in 1..1 |-> IdleTick]
    /\ ipc = [IdleIpc EXCEPT !.req = [r \in 1..MaxRequests |-> IdleRequest]]
    /\ Constructed

NextSession ==
    \/ \E payload \in SessionPayloads : IpcStart(payload)
    \/ \E r \in Requests : IpcKeyRead(r)
    \/ \E r \in Requests : IpcApiKeyRead(r)
    \/ \E r \in Requests, c \in SessionClients : IpcCredsRead(r, FALSE, c)
    \/ IpcStop
    \/ TimerElapse
    \/ TimerTick
    \/ \E t \in Slots, batch \in SessionBatches : FetchReturn(t, batch)
    \/ \E t \in Slots : FetchThrow(t)

SpecSession == InitSession /\ [][NextSession]_vars

\* ----------------------------- HighPerformanceCopyTrader (unnamed/part_002)
\* Math.min and Math.max: NaN if an argument is NaN
MathMin(a, b) == IF a.nan \/ b.nan THEN NaN ELSE IF a.v <= b.v THEN a ELSE b
MathMax(a, b) == IF a.nan \/ b.nan THEN NaN ELSE IF a.v >= b.v THEN a ELSE b
\* a >= b: false if an operand is NaN
GreaterEq(a, b) == ~a.nan /\ ~b.nan /\ a.v >= b.v
\* a + b, and a * b with one factor in tenths
NumPlus(a, b) == IF a.nan \/ b.nan THEN NaN ELSE Num(a.v + b.v)
NumTimes(a, b) == IF a.nan \/ b.nan THEN NaN ELSE Num(Times(a.v, b.v))

Range(q) == {q[i] : i \in DOMAIN q}
Remove(q, x) == SelectSeq(q, LAMBDA y : y # x)

\* a wallet address: which address it is and whether it is written with capitals
Addr(n, upper) == [n |-> n, upper |-> upper]
\* String.prototype.toLowerCase
toLowerCase(x) == [x EXCEPT !.upper = FALSE]

\* part_002:189-192: the set is cleared, then filled; addresses that is no array
\* (Absent) makes forEach throw after the clear
setTargetAddresses(h, addresses) ==
    [h EXCEPT !.targetAddresses =
        IF addresses.has THEN {toLowerCase(x) : x \in Range(addresses.v)} ELSE {}]
\* part_002:194-196; the bounds 0 and 5 in tenths
setCopyFactor(h, factor) ==
    [h EXCEPT !.copyFactor = MathMax(Num(0), MathMin(Num(50), factor))]
\* part_002:198-200
setMaxSlippage(h, slippageBps) ==
    [h EXCEPT !.maxSlippageBps = MathMax(Num(10), MathMin(Num(1000), slippageBps))]
\* part_002:202-204
setBatchSize(h, size) ==
    [h EXCEPT !.batchSize = MathMax(Num(1), MathMin(Num(100), size))]
\* part_002:206-208
setMaxConcurrency(h, concurrency) ==
    [h EXCEPT !.maxConcurrentTrades = MathMax(Num(1), MathMin(Num(50), concurrency))]
\* part_002:210-217, 275-296: the connections are simulated, there is none to open or
\* to close
setWebSocketEnabled(h, enabled) == [h EXCEPT !.useWebSocket = enabled]
\* part_002:299-309: the interval there was is cleared and a new one is set
startPolling(h) == [h EXCEPT !.pollingInterval = TRUE]
\* (mutant) clearQueues that leaves the processing queue
clearWaitingQueues(h) == [h EXCEPT !.tradeQueue = <<>>, !.copyTradeQueue = <<>>]

\* part_002:461-465
clearQueues(h) ==
    [h EXCEPT !.tradeQueue = <<>>, !.copyTradeQueue = <<>>, !.processingQueue = <<>>]

\* part_002:449-455, from index i (counted from 0) on; slice(i, NaN) is empty and
\* i += NaN ends the loop
RECURSIVE chunksFrom(_, _, _)
chunksFrom(array, i, size) ==
    IF i >= Len(array) THEN <<>>
    ELSE IF size.nan THEN <<<<>>>>
    ELSE <<SubSeq(array, i + 1, IF i + size.v <= Len(array) THEN i + size.v ELSE Len(array))>>
             \o chunksFrom(array, i + size.v, size)
chunkArray(array, size) == chunksFrom(array, 0, size)

\* part_002:416-432
updateMetrics(h, i) ==
    LET done == h.copies[i].status = "completed"
        total == IF done THEN h.metrics.totalTrades + 1 ELSE h.metrics.totalTrades
        totalProcessed == total + Cardinality(h.copyTradeCache)
    IN [h EXCEPT !.metrics =
           [totalTrades |-> total,
            totalVolume |-> IF done THEN NumPlus(h.metrics.totalVolume, h.copies[i].copySize)
                            ELSE h.metrics.totalVolume,
            successRate |-> IF totalProcessed > 0 THEN <<total, totalProcessed>>
                            ELSE <<0, 1>>]]

\* part_002:365-374, 378, 403: executeCopyTrade up to its await of the delay, on the
\* dry-run or on the real path
executeCopyTrade(c, dry) == [c EXCEPT !.status = "executing", !.live = ~dry]

\* (mutant) the loop of processWithConcurrency leaving when the engine was stopped
RECURSIVE runChunksWhileRunning(_, _, _)
runChunksWhileRunning(h, chunks, k) ==
    IF k > Len(chunks) \/ ~h.isRunning THEN h
    ELSE IF chunks[k] = <<>> THEN runChunksWhileRunning(h, chunks, k + 1)
    ELSE [h EXCEPT !.copies = [i \in DOMAIN h.copies |->
                                  IF i \in Range(chunks[k])
                                  THEN executeCopyTrade(h.copies[i], h.dryRun)
                                  ELSE h.copies[i]],
                   !.batches = @ \cup {[chunks |-> chunks, k |-> k]}]

\* part_002:359-362, from the k-th chunk on: every trade of the chunk starts executing
\* and the loop awaits them all; an empty chunk is settled at once
RECURSIVE runChunks(_, _, _)
runChunks(h, chunks, k) ==
    IF k > Len(chunks) THEN h
    ELSE IF chunks[k] = <<>> THEN runChunks(h, chunks, k + 1)
    ELSE [h EXCEPT !.copies = [i \in DOMAIN h.copies |->
                                  IF i \in Range(chunks[k])
                                  THEN executeCopyTrade(h.copies[i], h.dryRun)
                                  ELSE h.copies[i]],
                   !.batches = @ \cup {[chunks |-> chunks, k |-> k]}]

\* part_002:356-358
processWithConcurrency(h, trades) ==
    runChunks(h, chunkArray(trades, h.maxConcurrentTrades), 1)

\* part_002:346-354; splice(0, n) takes the first n elements
processBatch(h) ==
    LET q == h.copyTradeQueue
        n == IF h.batchSize.nan \/ h.batchSize.v < 0 THEN 0
             ELSE IF h.batchSize.v <= Len(q) THEN h.batchSize.v ELSE Len(q)
        batch == SubSeq(q, 1, n)
    IN IF Len(q) = 0 THEN h
       ELSE processWithConcurrency(
                [h EXCEPT !.copyTradeQueue = SubSeq(q, n + 1, Len(q)),
                          !.processingQueue = @ \o batch], batch)

\* (mutant) the test of line 319 without its isRunning part
isIgnoredByAddress(h, walletAddress) == toLowerCase(walletAddress) \notin h.targetAddresses

\* part_002:319
isIgnored(h, walletAddress) ==
    ~h.isRunning \/ toLowerCase(walletAddress) \notin h.targetAddresses

\* part_002:318-341, for a new trade of size 1 made by walletAddress
processTrade(h, walletAddress) ==
    IF isIgnored(h, walletAddress) THEN h
    ELSE LET copyTrade == [status |-> "pending", live |-> FALSE,
                           copySize |-> NumTimes(Num(10), h.copyFactor),
                           maxSlippage |-> h.maxSlippageBps]
             h1 == [h EXCEPT !.tradeCache = @ \cup {Len(h.copies) + 1},
                             !.copies = Append(@, copyTrade),
                             !.copyTradeQueue = Append(@, Len(h.copies) + 1)]
         IN IF GreaterEq(Num(Len(h1.copyTradeQueue)), h1.batchSize)
            THEN processBatch(h1) ELSE h1

\* part_002:375-398 and 361-362: the delay of copy trade i is over; on the real path
\* the trade may then fail. The trade is taken from the processing queue, and when it
\* was the last of its chunk the batch goes on with the next chunk or ends.
settle(h, i, ok) ==
    LET h1 == [h EXCEPT !.copies[i].status = IF ok THEN "completed" ELSE "failed"]
        h2 == IF ok THEN updateMetrics(h1, i) ELSE h1
        h3 == [h2 EXCEPT !.processingQueue = Remove(@, i)]
        b == CHOOSE x \in h.batches : i \in Range(x.chunks[x.k])
    IN IF \A j \in Range(b.chunks[b.k]) : h3.copies[j].status \in {"completed", "failed"}
       THEN runChunks([h3 EXCEPT !.batches = @ \ {b}], b.chunks, b.k + 1)
       ELSE h3

\* part_002:343, 370, 391: the tradeUpdate events emitted by the step from h to h2: one
\* for each copy trade that started executing, one for each that settled, and one at the
\* end of each call of processTrade that got past line 341 (at once when it awaited no
\* batch, otherwise when its batch ended)
tradeUpdates(h, h2, settled, returned) ==
    Cardinality({i \in DOMAIN h2.copies :
                    /\ h2.copies[i].status = "executing"
                    /\ ~(i \in DOMAIN h.copies /\ h.copies[i].status = "executing")})
        + settled + returned

\* part_002:235-258: what start returns; it throws only in setTargetAddresses
startResult(cfg) == IF cfg.targetAddresses.has THEN "ok" ELSE "failed"

\* part_002:236-251
start(h, cfg) ==
    LET h1 == setTargetAddresses(h, cfg.targetAddresses)
        h2 == setCopyFactor(h1, cfg.copyFactor)
        h3 == [setMaxSlippage(h2, cfg.maxSlippageBps) EXCEPT !.dryRun = cfg.dryRun]
        h4 == setMaxConcurrency(setBatchSize(h3, cfg.batchSize), cfg.maxConcurrentTrades)
        h5 == setWebSocketEnabled(h4, cfg.useWebSocket)
        h6 == IF h5.useWebSocket THEN h5 ELSE startPolling(h5)
    IN IF startResult(cfg) = "ok" THEN [h6 EXCEPT !.isRunning = TRUE] ELSE h1

\* part_002:263-265
stop(h) == clearQueues([h EXCEPT !.isRunning = FALSE])

\* what no step of the engine touches: the service, its client and the boundaries
HpRest ==
    <<settings, dryRun, clob, sdk, apiCreds, running, intervalId, timers, pending,
      lastTimestampMsByAddress, seenFillIdsByAddress, ticks, calls, venue, tokens, sizing,
      ipc, http>>

\* part_002:220-259; establishWebSocketConnections awaits nothing
HpStart(cfg) ==
    /\ hp' = start(hp, cfg)
    /\ obs' = [Obs("hpStart", 0) EXCEPT !.ended = startResult(cfg)]
    /\ UNCHANGED HpRest

\* part_002:261-272
HpStop ==
    /\ hp' = stop(hp)
    /\ obs' = [Obs("hpStop", 0) EXCEPT !.ended = "ok"]
    /\ UNCHANGED HpRest

\* a call of processTrade the caller does not wait for, while copy trades are left
HpProcessTrade(walletAddress) ==
    /\ Len(hp.copies) < MaxHpTrades
    /\ hp' = processTrade(hp, walletAddress)
    /\ obs' = Logged(Obs(IF isIgnored(hp, walletAddress) THEN "hpIgnored" ELSE "hpTrade", 0),
                     IF isIgnored(hp, walletAddress) THEN 0
                     ELSE tradeUpdates(hp, hp', 0, IF hp'.batches = hp.batches THEN 1 ELSE 0))
    /\ UNCHANGED HpRest

\* the timer of delay() fires for copy trade i; a dry-run execution cannot fail
HpSettle(i, ok) ==
    /\ i \in DOMAIN hp.copies
    /\ hp.copies[i].status = "executing"
    /\ hp.copies[i].live \/ ok
    /\ hp' = settle(hp, i, ok)
    /\ obs' = Logged(Obs("hpSettle", 0),
                     tradeUpdates(hp, hp', 1,
                         IF Cardinality(hp'.batches) < Cardinality(hp.batches) THEN 1 ELSE 0))
    /\ UNCHANGED HpRest

\* part_002:304-308: the polling interval fires
HpPollTimer ==
    /\ hp.pollingInterval
    /\ obs' = Obs(IF hp.isRunning THEN "hpPoll" ELSE "hpPollSkip", 0)
    /\ UNCHANGED <<hp, HpRest>>

HpSetCopyFactor(x) ==
    hp' = setCopyFactor(hp, x) /\ obs' = Obs("hpSet", 0) /\ UNCHANGED HpRest
HpSetMaxSlippage(x) ==
    hp' = setMaxSlippage(hp, x) /\ obs' = Obs("hpSet", 0) /\ UNCHANGED HpRest
HpSetBatchSize(x) ==
    hp' = setBatchSize(hp, x) /\ obs' = Obs("hpSet", 0) /\ UNCHANGED HpRest
HpSetMaxConcurrency(x) ==
    hp' = setMaxConcurrency(hp, x) /\ obs' = Obs("hpSet", 0) /\ UNCHANGED HpRest

InitHp ==
    /\ settings \in SizingSettings
    /\ settings.executionMode = "percent" /\ settings.fixedSize = 50
    /\ settings.copyFactor = 15 /\ ~settings.sellAllOnSell
    /\ dryRun = TRUE /\ clob = FALSE /\ sdk = FALSE /\ apiCreds = FALSE
    /\ ticks = [t \in 1..1 |-> IdleTick]
    /\ ipc = IdleIpc
    /\ Constructed

\* The configurations the engine is started with: address 1 watched, a copy factor of
\* 1.5, batches of one or two trades run one or two at a time, dry-run or live, over
\* WebSocket or by polling.
HpConfigs ==
    [targetAddresses : {Present(<<Addr(1, TRUE)>>)}, copyFactor : {Num(15)},
     maxSlippageBps : {Num(100)},
     dryRun : BOOLEAN, batchSize : {Num(1), Num(2)},
     maxConcurrentTrades : {Num(1), Num(2)}, useWebSocket : BOOLEAN]

\* the wallets whose trades are offered: the watched one, in small letters and with
\* capitals, and another one
HpWallets == {Addr(1, FALSE), Addr(1, TRUE), Addr(2, FALSE)}

NextHp ==
    \/ \E cfg \in HpConfigs : HpStart(cfg)
    \/ HpStop
    \/ \E w \in HpWallets : HpProcessTrade(w)
    \/ \E i \in 1..MaxHpTrades, ok \in BOOLEAN : HpSettle(i, ok)
    \/ HpPollTimer

SpecHp == InitHp /\ [][NextHp]_vars

\* Every delay ends and an armed interval keeps firing; whether anybody calls start,
\* stop or processTrade again is left open.
SpecHpFair ==
    /\ SpecHp
    /\ WF_vars(\E i \in 1..MaxHpTrades, ok \in BOOLEAN : HpSettle(i, ok))
    /\ WF_vars(HpPollTimer)

\* The numbers the setters and start are tried on: below, inside and above each range,
\* and NaN (what Math.min makes of a field the configuration does not have, too).
HpNumbers == {Num(-10), Num(0), Num(15), Num(200), Num(2000), NaN}
\* The configurations of the configuration runs: the one of backend/test.ts:20-32,
\* which has no batchSize, maxConcurrentTrades or useWebSocket, one with every number
\* inside its range, one with every number above it, and one without targetAddresses.
HpWideConfigs ==
    {[targetAddresses |-> Absent, copyFactor |-> Num(15), maxSlippageBps |-> Num(200),
      dryRun |-> FALSE, batchSize |-> Num(25), maxConcurrentTrades |-> Num(5),
      useWebSocket |-> FALSE],
     [targetAddresses |-> Present(<<Addr(1, FALSE)>>), copyFactor |-> Num(10), maxSlippageBps |-> Num(100),
      dryRun |-> TRUE, batchSize |-> NaN, maxConcurrentTrades |-> NaN,
      useWebSocket |-> FALSE],
     [targetAddresses |-> Present(<<Addr(1, FALSE)>>), copyFactor |-> Num(15), maxSlippageBps |-> Num(200),
      dryRun |-> TRUE, batchSize |-> Num(25), maxConcurrentTrades |-> Num(5),
      useWebSocket |-> TRUE],
     [targetAddresses |-> Present(<<Addr(1, FALSE)>>), copyFactor |-> Num(60), maxSlippageBps |-> Num(2000),
      dryRun |-> FALSE, batchSize |-> Num(101), maxConcurrentTrades |-> Num(51),
      useWebSocket |-> TRUE]}

NextHpConfig ==
    \/ \E x \in HpNumbers : HpSetCopyFactor(x)
    \/ \E x \in HpNumbers : HpSetMaxSlippage(x)
    \/ \E x \in HpNumbers : HpSetBatchSize(x)
    \/ \E x \in HpNumbers : HpSetMaxConcurrency(x)
    \/ \E cfg \in HpWideConfigs : HpStart(cfg)

SpecHpConfig == InitHp /\ [][NextHpConfig]_vars

\* ================================================================ claims
NoTickInFlight == \A t \in Slots : ~InFlight(t)

\* the largest of a cursor and the timestamps of a response
MaxTimestamp(cur, batch) ==
    LET S == {cur} \cup {batch[i].timestamp : i \in 1..Len(batch)}
    IN CHOOSE m \in S : \A x \in S : m >= x

\* C1: within a session mirrorOrder is called at most once per (address, fill id), and a
\* fetch that delivers again a fill id already in the address's seen-set neither passes
\* it to mirrorOrder nor aggregates it.
C1_MirroredAtMostOnce ==
    /\ \A p \in DOMAIN calls : calls[p] <= 1
    /\ obs.kind = "fetch" =>
         /\ obs.called \cap {<<obs.address, id>> : id \in obs.before} = {}
         /\ \A i \in 1..Len(ticks[obs.tick].aggregated) :
               LET e == ticks[obs.tick].aggregated[i]
               IN e.address = obs.address => e.fill.id \notin obs.before

\* C1 witness: with f1@100 mirrored and the cursor at 100, a fetch returns [f1@100, f2@150]
\* and the step mirrors f2 only; the cursor becomes 150.
C1_Witness ==
    /\ obs.kind = "fetch"
    /\ obs.batch = <<GammaFill(1), GammaFill(2)>>
    /\ obs.before = {1}
    /\ obs.prev = 100
    /\ obs.called = {<<obs.address, 2>>}
    /\ calls[<<obs.address, 1>>] = 1
    /\ CursorOf(lastTimestampMsByAddress, obs.address) = 150

\* C2 (as claimed): once no tick is in flight, every fill id a fetch returned (every id in
\* a seen-set) has been passed to mirrorOrder exactly once.
C2_EverySeenFillSubmittedOnce ==
    NoTickInFlight =>
        \A a \in DOMAIN seenFillIdsByAddress :
            \A id \in seenFillIdsByAddress[a] : calls[<<a, id>>] = 1

\* C3 (as claimed): a step in which mirrorOrder fails does not end the tick while
\* aggregated fills are left that were not passed to mirrorOrder.
C3_SubmissionFailureGoesOn ==
    obs.kind = "orderThrow" => obs.left = 0

\* C4: no step lowers the cursor of any address, and the step that processes a fetch
\* response leaves the address's cursor at the largest of its previous value and every
\* timestamp of the response, seen fills included.
C4_CursorMonotone ==
    [][ /\ \A a \in AllAddresses :
             CursorOf(lastTimestampMsByAddress', a) >= CursorOf(lastTimestampMsByAddress, a)
        /\ obs'.kind = "fetch" =>
             CursorOf(lastTimestampMsByAddress', obs'.address) =
                 MaxTimestamp(CursorOf(lastTimestampMsByAddress, obs'.address), obs'.batch)
      ]_vars

\* C4 witness: with the cursor at 150, a fetch delivers the older, not yet seen f1@100
\* and the cursor stays at 150.
C4_Witness ==
    /\ obs.kind = "fetch"
    /\ obs.batch = <<GammaFill(1)>>
    /\ obs.before = {2}
    /\ obs.prev = 150
    /\ CursorOf(lastTimestampMsByAddress, obs.address) = 150

\* C5: a fetch that throws sends exactly one error event, leaves cursors and seen-sets as
\* they were and moves the tick on to the next address (or past the loop) with its
\* aggregated fills kept; a tick is rejected only by ensureApprovals or mirrorOrder, never
\* by a fetch; and a tick that returns has passed every aggregated fill to mirrorOrder.
C5_FetchFailureIsolated ==
    [][ /\ obs'.ended = "rejected" => obs'.kind \in {"approvalsThrow", "orderThrow"}
        /\ obs'.ended = "done" => obs'.left = 0
        /\ obs'.kind = "fetchThrow" =>
             LET t == obs'.tick
                 tk == ticks[t]
             IN /\ lastTimestampMsByAddress' = lastTimestampMsByAddress
                /\ \A a \in DOMAIN seenFillIdsByAddress :
                       seenFillIdsByAddress'[a] = seenFillIdsByAddress[a]
                /\ IF tk.idx < Len(targetAddresses)
                   THEN /\ ticks'[t].pc = "fetch"
                        /\ ticks'[t].idx = tk.idx + 1
                        /\ ticks'[t].nErr = tk.nErr + 1
                        /\ ticks'[t].aggregated = tk.aggregated
                   ELSE IF obs'.ended = ""
                        THEN /\ ticks'[t].pc \in {"approvals", "order"}
                             /\ ticks'[t].nErr = tk.nErr + 1
                             /\ ticks'[t].aggregated = tk.aggregated
                        ELSE /\ obs'.ended = "done"
                             /\ obs'.errs = tk.nErr + 1
      ]_vars

\* C5 witness: two addresses; the fetch of the first threw, the fetch of the second
\* returns one new fill; the tick sends one error event, calls mirrorOrder once, for the
\* second address, and returns.
C5_Witness ==
    /\ Len(targetAddresses) = 2
    /\ obs.kind = "fetch"
    /\ obs.address = targetAddresses[2]
    /\ Len(obs.batch) = 1
    /\ obs.called = {<<targetAddresses[2], obs.batch[1].id>>}
    /\ obs.ended = "done"
    /\ obs.errs = 1

\* the sizing rule in the order the specification states it
RefSize(f, s) ==
    IF f.side = "sell" /\ s.sellAllOnSell THEN 10
    ELSE IF s.executionMode = "fixed" THEN s.fixedSize
    ELSE (f.size * s.copyFactor) \div 10

\* C6: the mirrored size of a fill is the sentinel 1 for a sell with sellAllOnSell,
\* whatever the mode, copyFactor and fixedSize; otherwise fixedSize in fixed mode, whatever
\* the fill's size; otherwise fill.size * copyFactor (10 * 1.5 = 15, fixedSize 5 gives 5).
C6_SizingRule ==
    sizing # <<>> =>
        LET f == sizing.fill
            s == settings
        IN /\ sizing.size = RefSize(f, s)
           /\ (f.side = "sell" /\ s.sellAllOnSell) => sizing.size = 10
           /\ (~(f.side = "sell" /\ s.sellAllOnSell) /\ s.executionMode = "fixed")
                  => sizing.size = s.fixedSize
           /\ (~(f.side = "sell" /\ s.sellAllOnSell) /\ s.executionMode = "percent"
                 /\ f.size = 100 /\ s.copyFactor = 15) => sizing.size = 150
           /\ (~(f.side = "sell" /\ s.sellAllOnSell) /\ s.executionMode = "fixed"
                 /\ s.fixedSize = 50) => sizing.size = 50

\* C6 witness: a sell of size 10 sized in fixed mode with fixedSize 5, copyFactor 1.5 and
\* sellAllOnSell: the size is the sentinel, neither 5 nor 15.
C6_Witness ==
    /\ sizing # <<>>
    /\ sizing.fill.side = "sell" /\ sizing.fill.size = 100
    /\ settings.sellAllOnSell
    /\ settings.executionMode = "fixed" /\ settings.fixedSize = 50
    /\ settings.copyFactor = 15
    /\ sizing.size = 10

\* C7: in dry-run no call reaches the trading venue (no SDK approval call, no raw POST, no
\* credential derivation, no createOrder or postOrder), and the token of every mirrorOrder
\* is made of the order's marketId, outcomeId, side, size, price and of maxSlippageBps
\* only, so equal orders have equal tokens.
C7_DryRunPure ==
    dryRun =>
        /\ venue = {}
        /\ \A t \in Slots : ticks[t].pc \notin {"approvals", "order"}
        /\ \A p \in tokens :
               p[2] = [tag |-> "dry-run", marketId |-> p[1].marketId,
                       outcomeId |-> p[1].outcomeId, side |-> p[1].side, size |-> p[1].size,
                       price |-> p[1].price, slip |-> <<settings.maxSlippageBps, 10000>>]
        /\ \A p, q \in tokens : p[1] = q[1] => p[2] = q[2]

\* C7 witness: a dry-run client that has both an SDK and a CLOB client; the same fill was
\* mirrored for two addresses and both calls returned the one token.
C7_Witness ==
    /\ dryRun /\ sdk /\ clob
    /\ calls[<<1, 1>>] = 1
    /\ calls[<<2, 1>>] = 1
    /\ Cardinality(tokens) = 1
    /\ venue = {}

\* the steps that resume the tick of slot t
Resume(t) ==
    \/ \E batch \in Batches : FetchReturn(t, batch)
    \/ FetchThrow(t)
    \/ \E ok \in BOOLEAN : ApprovalsReturn(t, ok)
    \/ \E ok \in BOOLEAN : PostReturn(t, ok)
    \/ \E ok \in BOOLEAN : DeriveReturn(t, ok)
    \/ \E ok \in BOOLEAN : CreateReturn(t, ok)
    \/ \E ok \in BOOLEAN : PostOrderReturn(t, ok)

\* C8: stop() leaves every tick in flight where it is, with what it has aggregated, and a
\* tick in flight can always be resumed, whether the service runs or not.
C8_StopLeavesTicksInFlight ==
    /\ [][(running /\ ~running') => (ticks' = ticks /\ observed' = observed)]_vars
    /\ [](\A t \in Slots : InFlight(t) => ENABLED Resume(t))

\* C8 witness: a step of a tick passes a fill to mirrorOrder while running is false and
\* the timer is cancelled.
C8_Witness ==
    /\ obs.called # {}
    /\ obs.stopped
    /\ obs.kind \in {"fetch", "approvals", "orderDone"}
    /\ ~running /\ ~intervalId

\* C9: whenever the service is stopped its timer is cancelled; a timer callback that runs
\* while the service is stopped starts no tick, fetches and submits nothing, changes no
\* cursor and no seen-set and sends no event; no tick starts while the service is stopped.
C9_StoppedTickDoesNothing ==
    /\ [](~running => ~intervalId)
    /\ [][ /\ (pending' < pending /\ ~running) =>
                /\ obs'.kind = "skip" /\ obs'.logs = 0 /\ obs'.errs = 0 /\ obs'.called = {}
                /\ UNCHANGED <<running, intervalId, ticks, lastTimestampMsByAddress,
                               seenFillIdsByAddress, observed>>
           /\ \A t \in Slots : (~InFlight(t) /\ ticks'[t].pc # "idle") => running'
         ]_vars

\* C9 witness: a callback that was due before stop() has run after it, and did nothing.
C9_Witness ==
    /\ obs.kind = "skip"
    /\ ~running /\ ~intervalId
    /\ pending = 0

\* C10: a timer callback that runs while the service runs starts a tick whatever the
\* other ticks are doing: it takes a free slot and goes to its first fetch.
C10_NoSingleFlightGuard ==
    [][(pending' < pending /\ running) =>
          \E t \in Slots : /\ ~InFlight(t)
                           /\ ticks'[t].pc = "fetch"
                           /\ \A u \in Slots \ {t} : ticks'[u] = ticks[u]]_vars

\* C10 witness: two ticks in flight on one address. The tick that began second read the
\* cursor at 0; the first then put f1 in the seen-set and the cursor at 100; the fetch of
\* the second returns [f1, f2] and it aggregates f2 only, the first still being in flight.
C10_Witness ==
    \E t, u \in Slots :
        /\ t # u
        /\ InFlight(t) /\ InFlight(u)
        /\ obs.kind = "fetch" /\ obs.tick = t
        /\ ticks[t].since = 0
        /\ obs.prev = 100
        /\ obs.before = {1}
        /\ obs.batch = <<GammaFill(1), GammaFill(2)>>
        /\ Len(ticks[u].aggregated) = 1 /\ ticks[u].aggregated[1].fill.id = 1
        /\ Len(ticks[t].aggregated) = 1 /\ ticks[t].aggregated[1].fill.id = 2
        /\ seenFillIdsByAddress[obs.address] = {1, 2}

\* C11: start() on a running service arms no timer, starts no tick and sends no event;
\* at most one interval timer is armed at any time, and one is armed exactly when
\* running is true.
C11_StartIdempotent ==
    /\ [](timers <= 1 /\ (timers = 1 <=> running) /\ (intervalId <=> running))
    /\ [][obs'.kind = "startAgain" =>
             /\ running
             /\ UNCHANGED <<running, intervalId, timers, pending, ticks,
                            lastTimestampMsByAddress, seenFillIdsByAddress, observed>>
             /\ obs'.logs = 0 /\ obs'.errs = 0 /\ obs'.called = {}]_vars
    /\ [][timers' > timers => ~running]_vars

\* C11 witness: start() was called on a running service whose first tick is in flight;
\* one timer is armed.
C11_Witness ==
    /\ obs.kind = "startAgain"
    /\ running /\ intervalId /\ timers = 1
    /\ \E t \in Slots : InFlight(t)

\* C12: the step of start() that sets running arms the timer and starts exactly one tick,
\* which goes to the fetch of the first address in that same step, no timer callback
\* being consumed.
C12_StartTicksAtOnce ==
    [][(~running /\ running') =>
          /\ obs'.kind = "start"
          /\ intervalId' /\ timers' = timers + 1
          /\ pending' = pending
          /\ \E t \in Slots : /\ ~InFlight(t)
                              /\ ticks'[t].pc = "fetch" /\ ticks'[t].idx = 1
                              /\ \A u \in Slots \ {t} : ticks'[u] = ticks[u]]_vars

\* C12 witness: start() has just run on a stopped service: its tick awaits the first
\* fetch and no timer period has elapsed.
C12_Witness ==
    /\ obs.kind = "start"
    /\ running /\ pending = 0
    /\ ticks[obs.tick].pc = "fetch" /\ ticks[obs.tick].idx = 1
    /\ \A u \in Slots \ {obs.tick} : ~InFlight(u)

\* the positions of a response that hold a fill not seen before, first occurrences only
FirstNew(batch, before) ==
    {i \in 1..Len(batch) : /\ batch[i].id \notin before
                           /\ \A j \in 1..(i - 1) : batch[j].id # batch[i].id}
\* the j-th smallest element of a set of numbers
Nth(S, j) == CHOOSE x \in S : Cardinality({y \in S : y < x}) = j - 1
\* the aggregated list a tick must have once the step to the primed state has processed
\* its response, if the step is one
AggregatedAfter ==
    LET t == obs'.tick
        P == FirstNew(obs'.batch, obs'.before)
    IN IF obs'.kind = "fetch"
       THEN ticks[t].aggregated \o
                [j \in 1..Cardinality(P) |->
                     [fill |-> obs'.batch[Nth(P, j)], address |-> obs'.address]]
       ELSE ticks[t].aggregated
PositionOf(a) == CHOOSE i \in 1..Len(targetAddresses) : targetAddresses[i] = a

\* C13: a tick aggregates its new fills address after address in the order of
\* targetAddresses and, for one address, in the order of the response; its mirrorOrder
\* calls are made in the order of that list, each step going on from the position after
\* the last fill submitted.
C13_SubmissionOrder ==
    /\ [](\A t \in Slots : \A i, j \in 1..Len(ticks[t].aggregated) :
            i < j => PositionOf(ticks[t].aggregated[i].address)
                       <= PositionOf(ticks[t].aggregated[j].address))
    /\ [][ /\ (obs'.kind = "fetch" /\ ticks'[obs'.tick].pc # "idle") =>
                ticks'[obs'.tick].aggregated = AggregatedAfter
           /\ \A t \in Slots :
                (InFlight(t) /\ InFlight(t)' /\ ~(obs'.kind = "fetch" /\ obs'.tick = t)) =>
                    ticks'[t].aggregated = ticks[t].aggregated
           /\ obs'.order # <<>> =>
                /\ ticks[obs'.tick].sub + Len(obs'.order) <= Len(AggregatedAfter)
                /\ obs'.order = [i \in 1..Len(obs'.order) |->
                                    Key(AggregatedAfter[ticks[obs'.tick].sub + i])]
                /\ ticks'[obs'.tick].pc # "idle" =>
                     ticks'[obs'.tick].sub = ticks[obs'.tick].sub + Len(obs'.order)
         ]_vars

\* C13 witness: a dry-run tick over two addresses: the first returned f2, the second
\* returns [f2, f1]; mirrorOrder is called for f2 of the first address, then for f2 and
\* for f1 of the second, in that order.
C13_Witness ==
    /\ Len(targetAddresses) = 2
    /\ obs.kind = "fetch"
    /\ obs.batch = <<GammaFill(2), GammaFill(1)>>
    /\ obs.order = << <<targetAddresses[1], 2>>, <<targetAddresses[2], 2>>,
                      <<targetAddresses[2], 1>> >>

\* C14 (as claimed): in a live session every tick that ends has called ensureApprovals
\* once.
C14_ApprovalsOnceInEachTick ==
    (~dryRun /\ obs.ended # "") => obs.appr = 1

\* C14 (amended): a tick calls ensureApprovals at most once: once if it aggregated a new
\* fill and not at all otherwise. With an SDK in a live session the first mirrorOrder call
\* of a tick is made in the step in which the SDK's ensureApprovals resolves, never in
\* the step of a fetch; if it rejects, the tick is rejected with no mirrorOrder call. In
\* dry-run the SDK is never called.
C14_ApprovalsBeforeOrders ==
    /\ [](\A t \in Slots : /\ ticks[t].nAppr <= 1
                           /\ ticks[t].pc \in {"approvals", "order"} => ticks[t].nAppr = 1
                           /\ ticks[t].pc = "fetch" => ticks[t].nAppr = 0
                           /\ ticks[t].pc = "approvals" => (~dryRun /\ sdk /\ ticks[t].sub = 0))
    /\ [](dryRun => "ensureApprovals" \notin venue)
    /\ [][ /\ obs'.ended # "" =>
                obs'.appr = (IF AggregatedAfter = <<>> THEN 0 ELSE 1)
           /\ (obs'.order # <<>> /\ ticks[obs'.tick].pc = "fetch") => (dryRun \/ ~sdk)
           /\ (obs'.order # <<>> /\ ~dryRun /\ sdk /\ ticks[obs'.tick].sub = 0) =>
                (obs'.kind = "approvals" /\ ticks[obs'.tick].pc = "approvals")
           /\ obs'.kind = "approvalsThrow" =>
                /\ obs'.order = <<>> /\ calls' = calls
                /\ obs'.ended = "rejected"
                /\ obs'.left = Len(ticks[obs'.tick].aggregated)
         ]_vars

\* C14 witness: a live session with an SDK: ensureApprovals has resolved and the step
\* makes the first mirrorOrder call of the tick.
C14_Witness ==
    /\ ~dryRun /\ sdk
    /\ obs.kind = "approvals"
    /\ Len(obs.order) = 1
    /\ "ensureApprovals" \in venue

\* the raw records a response holds for a candidate, read off the body
ListFor(att, body) ==
    IF body.kind = "object" THEN body[att.list].v
    ELSE IF body.kind = "array" THEN body.self ELSE <<>>

\* C15: the candidates are requested one at a time in list order; a call that returns on
\* the k-th candidate has requested candidates 1..k and no other, returns the list found
\* under the k-th candidate's own key, and requests nothing more.
C15_StopsAtFirstSuccess ==
    /\ [](http.requested = [i \in 1..http.k |-> i])
    /\ [](http.result = "return" =>
            /\ http.pc = "done"
            /\ Len(http.fills) = Len(ListFor(attempts[http.k], http.last.body))
            /\ \A i \in 1..Len(http.fills) :
                   http.fills[i].id = ListFor(attempts[http.k], http.last.body)[i])
    /\ [][http.pc = "done" => (http' = http \/ (http'.pc = "get" /\ http'.k = 1))]_vars

\* C15 witness: the call returned on the third candidate, whose response holds a fills
\* list and a trades list: candidates 1, 2, 3 were requested and the trades were returned.
C15_Witness ==
    /\ http.result = "return"
    /\ http.requested = <<1, 2, 3>>
    /\ http.last.body.fills = Present(<<1>>)
    /\ http.last.body.trades = Present(<<2>>)
    /\ Len(http.fills) = 1 /\ http.fills[1].id = 2

\* C16 (as claimed): once a response with a status other than 401 and 404 has arrived,
\* the call has returned and no later candidate is requested.
C16_FirstAnswerAccepted ==
    http.last.status \notin {0, 401, 404} => (http.pc = "done" /\ http.result = "return")

\* the error a failed candidate leaves, read off its response
ErrorFor(r) ==
    IF r.status = 0 THEN "transport error"
    ELSE IF r.status = 401 THEN "Unauthorized (401) from data source"
    ELSE IF r.status = 404 THEN "Not found (404)"
    ELSE "TypeError: raw.map is not a function"

\* C17: a call that throws has requested every candidate once, in order, and throws the
\* error of the last candidate; the errors of a 401, of a 404 and of a transport failure
\* differ from each other.
C17_ThrowsLastError ==
    http.result = "throw" =>
        /\ http.pc = "done"
        /\ http.requested = [i \in 1..Len(attempts) |-> i]
        /\ http.lastError = ErrorFor(http.last)
        /\ \A a, b \in {0, 401, 404} :
               a # b => ErrorFor([status |-> a, body |-> NullBody])
                          # ErrorFor([status |-> b, body |-> NullBody])

\* C17 witness: every candidate failed, the first with a 401 and the last with a 404: the
\* call throws "Not found (404)".
C17_Witness ==
    /\ http.result = "throw"
    /\ Len(http.requested) = Len(attempts)
    /\ http.firstError = "Unauthorized (401) from data source"
    /\ http.last.status = 404
    /\ http.lastError = "Not found (404)"

\* C18: a start request that read no private key ends failed, and its last step creates
\* and starts no service, arms no timer, starts no tick and leaves the session that was
\* there, its client and its timer as they were.
C18_NoKeyNoStart ==
    [][(\E r \in Requests : /\ ipc.req[r].pc = "creds" /\ ipc'.req[r].pc = "idle"
                               /\ ipc.req[r].gotKey = "none") =>
          /\ ipc'.outcome = "failed: No private key stored"
          /\ ipc'.services = ipc.services
          /\ UNCHANGED <<settings, dryRun, clob, sdk, apiCreds, running, intervalId, timers,
                         pending, ticks, lastTimestampMsByAddress, seenFillIdsByAddress,
                         observed>>
          /\ obs'.logs = 0]_vars

\* C18 witness: with a session running, the key was deleted and a start request failed:
\* the session is still running with its one timer.
C18_Witness ==
    /\ obs.kind = "ipcFailed"
    /\ ipc.outcome = "failed: No private key stored"
    /\ ipc.services = 1
    /\ running /\ intervalId /\ timers = 1

\* C19 (as claimed): an order sized in percent mode by a session started through the
\* start handler uses a copyFactor between 0 and 5, and a dry-run token carries the
\* slippage of a maxSlippageBps between 10 and 1000.
C19_StartClampsSettings ==
    /\ (sizing # <<>> /\ settings.executionMode = "percent") =>
          /\ settings.copyFactor \in 0..50
          /\ sizing.size \in 0..Times(sizing.fill.size, 50)
    /\ \A p \in tokens : p[2].slip[1] \in 10..1000

\* C20: the client's clob never changes after construction. A live client without one
\* posts exactly one body per mirrorOrder call, made of the order's marketId, outcomeId,
\* side, price and size and of the slippage, and calls nothing of the CLOB client; a
\* client with one, and a dry-run client, never post.
C20_PathFixedByInit ==
    /\ [](clob => "post" \notin venue)
    /\ [](~clob => venue \cap {"derive", "create", "postOrder"} = {})
    /\ [](\A t \in Slots : ticks[t].mpc = "post" => (~clob /\ ~dryRun))
    /\ [][ /\ clob' = clob
           /\ IF ~dryRun /\ ~clob
              THEN /\ Len(obs'.posted) = Len(obs'.order)
                   /\ \A i \in 1..Len(obs'.posted) :
                        LET f == AggregatedAfter[ticks[obs'.tick].sub + i].fill
                        IN obs'.posted[i] =
                             [marketId |-> f.marketId, outcomeId |-> f.outcomeId,
                              side |-> f.side, price |-> f.price,
                              size |-> RefSize(f, settings),
                              slippage |-> <<settings.maxSlippageBps, 10000>>]
              ELSE obs'.posted = <<>>
         ]_vars

\* C20 witness: a live client without a CLOB client: the POST of one order has returned
\* and the step posts the next order of the tick.
C20_Witness ==
    /\ ~dryRun /\ ~clob
    /\ obs.kind = "orderDone"
    /\ Len(obs.posted) = 1
    /\ obs.posted[1].side = "sell"
    /\ venue \subseteq {"post", "ensureApprovals"}

\* the steps of a live mirrorOrder call of tick t: the step to the primed state is one
\* in which an await of the call resolved or rejected
OrderStep(t) ==
    /\ ticks[t].pc = "order"
    /\ obs'.tick = t
    /\ obs'.kind \in {"orderDone", "orderThrow", "derive", "deriveThrow", "create"}
\* after the step, tick t is still in the mirrorOrder call it was in before
SameCall(t) == ticks'[t].pc = "order" /\ ticks'[t].sub = ticks[t].sub

\* C21 (as claimed): when the submission of a live order on the primary path
\* (createOrder, postOrder) fails, the same order is next submitted over the fallback
\* path (the raw POST); the request does not end failed from the primary failure.
C21_PrimaryFailureFallsBack ==
    [][\A t \in Slots :
          (OrderStep(t) /\ ticks[t].mpc \in {"create", "postOrder"}
                        /\ obs'.kind = "orderThrow") =>
              /\ SameCall(t)
              /\ ticks'[t].mpc = "post"
              /\ obs'.ended # "rejected"]_vars

\* C22: one mirrorOrder call makes at most one submission attempt. Within a call the
\* awaits only go forward (derivation, then createOrder, then postOrder; the raw POST
\* is followed by nothing), so none is made twice; a step in which the submission
\* failed ends the call and the tick without calling anything, and a step in which it
\* succeeded goes on with a later fill or ends the tick.
C22_NoRetry ==
    [][\A t \in Slots : OrderStep(t) =>
          /\ SameCall(t) =>
                <<ticks[t].mpc, ticks'[t].mpc>> \in
                    {<<"derive", "create">>, <<"create", "postOrder">>}
          /\ obs'.kind = "orderThrow" =>
                /\ ticks'[t] = IdleTick
                /\ obs'.ended = "rejected"
                /\ obs'.order = <<>> /\ obs'.posted = <<>>
                /\ venue' = venue /\ calls' = calls
          /\ obs'.kind = "orderDone" =>
                \/ ticks'[t] = IdleTick /\ obs'.ended = "done"
                \/ ticks'[t].pc = "order" /\ ticks'[t].sub = ticks[t].sub + 1
       ]_vars

\* C22 witness: createOrder returned, postOrder was called and rejected: the tick has
\* ended rejected, with fills of its list left unsubmitted.
C22_Witness ==
    /\ obs.kind = "orderThrow"
    /\ clob /\ "postOrder" \in venue
    /\ obs.ended = "rejected"
    /\ obs.left = 1
    /\ ticks[obs.tick] = IdleTick

\* C23 (as claimed): a step of a live mirrorOrder call in which something failed (the
\* venue's rejection, the signing in createOrder, the derivation of the credentials)
\* makes the call throw: the tick ends rejected, with the error reported.
C23_EveryFailureSurfaced ==
    obs.kind \in {"orderThrow", "deriveThrow"} =>
        /\ obs.ended = "rejected"
        /\ obs.errs >= 1

C25_TwoEventsPerNewFill ==
    LET n == Cardinality(FirstNew(obs.batch, obs.before))
    IN (obs.kind = "fetch" /\ obs.ended = "done" /\ Len(targetAddresses) = 1 /\ n >= 1) =>
           /\ obs.found = n
           /\ obs.logs = 2 * n

\* a number inside lo..hi, and the bound of lo..hi nearest to a number outside it
InRange(x, lo, hi) == ~x.nan /\ x.v >= lo /\ x.v <= hi
NearestBound(x, lo, hi) == IF x.v < lo THEN Num(lo) ELSE Num(hi)
StoredAs(x, lo, hi, stored) ==
    /\ InRange(x, lo, hi) => stored = x
    /\ (~x.nan /\ ~InRange(x, lo, hi)) => stored = NearestBound(x, lo, hi)

\* C26 (as claimed): whatever numbers the setters and start were called with,
\* copyFactor is in [0, 5], maxSlippageBps in [10, 1000], batchSize in [1, 100] and
\* maxConcurrentTrades in [1, 50]; a setter stores an argument inside the range as it
\* is and one outside it as the nearest bound.
C26_SettingsClamped ==
    /\ [](/\ InRange(hp.copyFactor, 0, 50)
          /\ InRange(hp.maxSlippageBps, 10, 1000)
          /\ InRange(hp.batchSize, 1, 100)
          /\ InRange(hp.maxConcurrentTrades, 1, 50))
    /\ [][\A x \in HpNumbers :
            /\ HpSetCopyFactor(x) => StoredAs(x, 0, 50, hp'.copyFactor)
            /\ HpSetMaxSlippage(x) => StoredAs(x, 10, 1000, hp'.maxSlippageBps)
            /\ HpSetBatchSize(x) => StoredAs(x, 1, 100, hp'.batchSize)
            /\ HpSetMaxConcurrency(x) => StoredAs(x, 1, 50, hp'.maxConcurrentTrades)]_vars

\* the copy trades in a status
InStatus(st) == {i \in DOMAIN hp.copies : hp.copies[i].status = st}

\* C27 (as claimed): a step that starts executions leaves at most maxConcurrentTrades
\* copy trades in status 'executing'.
C27_ExecutingAtMostMaxConcurrent ==
    [][Cardinality(InStatus("executing")') > Cardinality(InStatus("executing")) =>
          GreaterEq(hp'.maxConcurrentTrades, Num(Cardinality(InStatus("executing")')))]_vars

\* C28 (as claimed): a copy trade accepted by a running engine and still pending is
\* completed or failed in the end, unless the engine is stopped.
C28_AcceptedTradeEnds ==
    \A i \in 1..MaxHpTrades :
        (hp.isRunning /\ i \in InStatus("pending"))
            ~> (i \in InStatus("completed") \cup InStatus("failed") \/ ~hp.isRunning)

\* C29 (as claimed): once a copy trade has been executed, successRate is the number
\* completed over the number completed or failed, and totalTrades the number completed.
C29_SuccessRateIsShare ==
    LET c == Cardinality(InStatus("completed"))
        f == Cardinality(InStatus("failed"))
    IN c + f > 0 =>
          /\ hp.metrics.successRate[1] * (c + f) = c * hp.metrics.successRate[2]
          /\ hp.metrics.totalTrades = c

\* C30 (as claimed): while the engine runs after a start with useWebSocket = true, no
\* firing of a polling interval invokes pollForNewTrades.
C30_NoPollInWebSocketMode ==
    (hp.isRunning /\ hp.useWebSocket) => obs.kind # "hpPoll"

\* C31: a processTrade call made while the engine is not running, or with a wallet
\* address that is none of the target addresses whatever its capitals, changes nothing
\* of the engine (tradeCache, the queues, the copy trades, the metrics) and emits no
\* tradeUpdate event.
C31_IgnoredTradeIsNoOp ==
    [][\A w \in HpWallets :
          (HpProcessTrade(w) /\ (~hp.isRunning \/ \A x \in hp.targetAddresses : x.n # w.n))
              => (hp' = hp /\ obs'.logs = 0 /\ obs'.kind = "hpIgnored")]_vars

\* C31 witness: the engine was started and stopped with copy trades made, and a trade
\* offered after the stop was dropped.
C31_Witness ==
    /\ obs.kind = "hpIgnored"
    /\ ~hp.isRunning
    /\ hp.targetAddresses = {Addr(1, FALSE)}
    /\ Len(hp.copies) = 1 /\ hp.tradeCache = {1}

\* C32: a start with a configuration that has its target addresses returns ok and
\* leaves isRunning true, whatever went before; a stop returns ok and leaves isRunning
\* false and the three queues empty.
C32_StartStopResults ==
    [][/\ (obs'.kind = "hpStart" /\ \E cfg \in HpConfigs : HpStart(cfg)) =>
              (obs'.ended = "ok" /\ hp'.isRunning)
       /\ HpStop =>
              /\ obs'.ended = "ok" /\ ~hp'.isRunning
              /\ hp'.tradeQueue = <<>> /\ hp'.copyTradeQueue = <<>>
              /\ hp'.processingQueue = <<>>]_vars

\* C32 witness: a start that follows a stop: the copy trade that waited in the queue
\* at the stop is still pending and in no queue and no batch, and the engine runs.
C32_Witness ==
    /\ obs.kind = "hpStart" /\ obs.ended = "ok"
    /\ hp.isRunning
    /\ Len(hp.copies) = 1 /\ hp.copies[1].status = "pending"
    /\ hp.copyTradeQueue = <<>> /\ hp.batches = {}

\* C40: stop() cancels no batch under way: it leaves the batches and the copy trades as
\* they are, and when the last copy trade of a chunk settles, the trades of the next
\* chunk of the batch start executing whether the engine runs or not.
C40_StopCancelsNoBatch ==
    [][/\ HpStop => (hp'.batches = hp.batches /\ hp'.copies = hp.copies)
       /\ obs'.kind = "hpSettle" =>
              \A b \in hp.batches :
                  (/\ b.k < Len(b.chunks)
                   /\ \A j \in Range(b.chunks[b.k]) :
                          hp'.copies[j].status \in {"completed", "failed"}
                   /\ \E j \in Range(b.chunks[b.k]) : hp.copies[j].status = "executing")
                      => \A j \in Range(b.chunks[b.k + 1]) :
                             hp'.copies[j].status = "executing"]_vars

\* C40 witness: a batch of two copy trades run one at a time was under way when the
\* engine was stopped; the first has now completed and is counted, and the second has
\* started executing, with isRunning false.
C40_Witness ==
    /\ ~hp.isRunning
    /\ obs.kind = "hpSettle"
    /\ hp.batches = {[chunks |-> <<<<1>>, <<2>>>>, k |-> 2]}
    /\ hp.copies[1].status = "completed" /\ hp.copies[2].status = "executing"
    /\ hp.metrics.totalTrades = 1
    /\ hp.processingQueue = <<>>

\* C33: overlapping ticks never hold or submit the same fill twice: the aggregated lists
\* of the ticks in flight share no (address, fill id), a fill waiting in one of them has
\* not been passed to mirrorOrder by another, and one already passed was passed once.
C33_OverlapSubmitsOnce ==
    \A t1 \in Slots, t2 \in Slots :
       \A i \in 1..Len(ticks[t1].aggregated), j \in 1..Len(ticks[t2].aggregated) :
          /\ (t1 # t2 \/ i # j) => Key(ticks[t1].aggregated[i]) # Key(ticks[t2].aggregated[j])
          /\ calls[Key(ticks[t1].aggregated[i])] = (IF i <= ticks[t1].sub THEN 1 ELSE 0)

\* C33 witness: two ticks overlap on one address; the first got fill 1 and is awaiting
\* its submission when the fetch of the second returns fill 1 too: the second aggregates
\* nothing and calls mirrorOrder for nothing.
C33_Witness ==
    /\ obs.kind = "fetch"
    /\ obs.batch = <<GammaFill(1)>>
    /\ obs.before = {1}
    /\ obs.called = {}
    /\ obs.ended = "done"
    /\ \E t \in Slots :
          /\ t # obs.tick
          /\ ticks[t].pc = "order"
          /\ ticks[t].sub = 1
          /\ Key(ticks[t].aggregated[1]) = <<obs.address, 1>>
    /\ calls[<<obs.address, 1>>] = 1

\* C34: no step removes an id from a seen-set; every fill id passed to mirrorOrder in a
\* step, and every fill a tick still holds for submission, is in the seen-set of its
\* address; and a step in which ensureApprovals or a submission fails, or the tick is
\* rejected, leaves the seen-sets as they are.
C34_SeenOnlyGrows ==
    /\ [](\A t \in Slots : \A i \in 1..Len(ticks[t].aggregated) :
             ticks[t].aggregated[i].fill.id
                 \in SeenOf(seenFillIdsByAddress, ticks[t].aggregated[i].address))
    /\ [][ /\ \A a \in AllAddresses :
                 SeenOf(seenFillIdsByAddress, a) \subseteq SeenOf(seenFillIdsByAddress', a)
           /\ \A p \in obs'.called : p[2] \in SeenOf(seenFillIdsByAddress', p[1])
           /\ (obs'.kind \in {"approvalsThrow", "orderThrow"} \/ obs'.ended = "rejected") =>
                 seenFillIdsByAddress' = seenFillIdsByAddress
         ]_vars

\* C34 witness: a tick aggregated fills 1 and 2 of an address; the submission of fill 1
\* failed and the tick was rejected with fill 2 never submitted: both ids stay seen.
C34_Witness ==
    /\ obs.kind = "orderThrow"
    /\ obs.ended = "rejected"
    /\ obs.left = 1
    /\ SeenOf(seenFillIdsByAddress, targetAddresses[1]) = {1, 2}
    /\ calls[<<targetAddresses[1], 1>>] = 1
    /\ calls[<<targetAddresses[1], 2>>] = 0

\* C35: the step in which the fetch of an address fails changes neither the cursor nor
\* the seen-set of that address, whose seen-set exists by then; with one tick at a time
\* the cursor is still the since value the failed fetch was made with; and every pass
\* of the address loop reads since from the cursor as it then is, so the next fetch of
\* the address asks for the same since.
C35_FailedFetchKeepsCursor ==
    [][ /\ obs'.kind = "fetchThrow" =>
             LET tk == ticks[obs'.tick]
                 a == targetAddresses[tk.idx]
             IN /\ obs'.address = a
                /\ CursorOf(lastTimestampMsByAddress', a) = CursorOf(lastTimestampMsByAddress, a)
                /\ SeenOf(seenFillIdsByAddress', a) = SeenOf(seenFillIdsByAddress, a)
                /\ a \in DOMAIN seenFillIdsByAddress'
                /\ Cardinality(Slots) = 1 => CursorOf(lastTimestampMsByAddress', a) = tk.since
        /\ \A t \in Slots :
             (ticks'[t].pc = "fetch" /\ (ticks[t].pc # "fetch" \/ ticks'[t].idx # ticks[t].idx)) =>
                 ticks'[t].since =
                     CursorOf(lastTimestampMsByAddress', targetAddresses[ticks'[t].idx])
      ]_vars

\* C35 witness: an earlier tick mirrored fill 1 and left the cursor of the address at 100;
\* the fetch of a later tick fails and the tick returns: cursor 100, seen-set {1}.
C35_Witness ==
    /\ obs.kind = "fetchThrow"
    /\ obs.ended = "done"
    /\ obs.errs = 1
    /\ CursorOf(lastTimestampMsByAddress, obs.address) = 100
    /\ SeenOf(seenFillIdsByAddress, obs.address) = {1}
    /\ calls[<<obs.address, 1>>] = 1

\* C36: a tick that awaits ensureApprovals or a submission has passed the last address
\* and holds a new fill, never fetches again and keeps its aggregated list; every fill
\* passed to mirrorOrder in a step is by then in the seen-set of its address, whose cursor
\* is at or past the fill's timestamp; and a tick whose address loop ends with no new
\* fill returns with no call of ensureApprovals or mirrorOrder.
C36_FetchAllThenSubmit ==
    /\ [](\A t \in Slots :
             ticks[t].pc \in {"approvals", "order"} =>
                 /\ ticks[t].idx = Len(targetAddresses)
                 /\ ticks[t].aggregated # <<>>)
    /\ [][ /\ \A t \in Slots :
                 ticks[t].pc \in {"approvals", "order"} =>
                     /\ ticks'[t].pc # "fetch"
                     /\ ticks'[t].pc # "idle" => ticks'[t].aggregated = ticks[t].aggregated
           /\ (obs'.order # <<>> \/ venue' # venue) =>
                 ticks[obs'.tick].idx = Len(targetAddresses)
           /\ \A i \in 1..Len(obs'.order) :
                 /\ obs'.order[i][2] \in SeenOf(seenFillIdsByAddress', obs'.order[i][1])
                 /\ CursorOf(lastTimestampMsByAddress', obs'.order[i][1])
                        >= GammaFill(obs'.order[i][2]).timestamp
           /\ (obs'.kind \in {"fetch", "fetchThrow"}
                 /\ ticks[obs'.tick].idx = Len(targetAddresses)
                 /\ AggregatedAfter = <<>>) =>
                 /\ obs'.ended = "done"
                 /\ obs'.appr = 0 /\ obs'.order = <<>>
                 /\ calls' = calls /\ venue' = venue /\ tokens' = tokens
         ]_vars

\* C36 witness: two addresses, each brought a new fill; the tick has fetched both and
\* is awaiting the submission of the first fill, with both cursors advanced and both
\* ids seen.
C36_Witness ==
    /\ Len(targetAddresses) = 2
    /\ \E t \in Slots :
          /\ ticks[t].pc = "order"
          /\ ticks[t].sub = 1
          /\ Len(ticks[t].aggregated) = 2
          /\ ticks[t].aggregated[1].address = targetAddresses[1]
          /\ ticks[t].aggregated[2].address = targetAddresses[2]
    /\ \A a \in {targetAddresses[1], targetAddresses[2]} :
          /\ SeenOf(seenFillIdsByAddress, a) # {}
          /\ CursorOf(lastTimestampMsByAddress, a) > 0

\* the id the specification gives a raw record
StatedId(f) ==
    IF f.id.has THEN f.id.v
    ELSE IF f.fillId.has THEN f.fillId.v
    ELSE IF f.tradeId.has THEN f.tradeId.v
    ELSE (IF f.transactionHash.has THEN f.transactionHash.v
          ELSE IF f.txHash.has THEN f.txHash.v ELSE "")
         \o "-" \o (IF f.asset.has THEN f.asset.v
                    ELSE IF f.marketId.has THEN f.marketId.v ELSE "")

\* C39: the id of a mapped fill is the first present of id, fillId and tradeId, and
\* otherwise "<transaction hash>-<asset or market id>"; a raw record delivered twice gets
\* the same id both times; and the records of two different trades get different ids.
C39_StableUniqueId ==
    http.result = "return" =>
        LET raw == http.last.body.self
        IN /\ \A i \in 1..Len(raw) : http.fills[i].id = StatedId(raw[i])
           /\ \A i \in 1..Len(raw), j \in 1..Len(raw) :
                 /\ raw[i] = raw[j] => http.fills[i].id = http.fills[j].id
                 /\ raw[i].fill # raw[j].fill => http.fills[i].id # http.fills[j].id

\* C39, the part that holds: the fallback order, and the same id for the same record
C39_StableId ==
    http.result = "return" =>
        LET raw == http.last.body.self
        IN /\ \A i \in 1..Len(raw) : http.fills[i].id = StatedId(raw[i])
           /\ \A i \in 1..Len(raw), j \in 1..Len(raw) :
                 raw[i] = raw[j] => http.fills[i].id = http.fills[j].id

\* C39: two different trades on one asset, both delivered with no id, fillId, tradeId
\* and no transaction hash, are mapped to the one id "-t1"
C39_PartialPayloadsCollide ==
    /\ http.result = "return"
    /\ Len(http.fills) = 2
    /\ http.last.body.self[1].fill # http.last.body.self[2].fill
    /\ http.last.body.self[1].asset = Present("t1")
    /\ http.last.body.self[2].asset = Present("t1")
    /\ http.fills[1].id = "-t1"
    /\ http.fills[2].id = "-t1"

\* C37: whatever the order in which start requests (which may overlap) and stop requests
\* are served, at most one timer is armed, and it is armed exactly while the current
\* service is running; the step that ends a successful start request stops the service
\* that was there, and leaves the new one running with the one timer armed and its first
\* tick at its first fetch.
C37_OneServiceArmed ==
    /\ [](timers <= 1 /\ (running <=> timers = 1) /\ (running <=> intervalId))
    /\ [][obs'.kind = "start" =>
             /\ \E r \in Requests : ipc.req[r].pc = "creds" /\ ipc'.req[r].pc = "idle"
             /\ ipc'.outcome = "ok"
             /\ ipc'.services = 1
             /\ ipc'.stopped = (IF ipc.services > 0 THEN 1 ELSE 0)
             /\ running' /\ intervalId' /\ timers' = 1
             /\ ticks'[1].pc = "fetch"
         ]_vars

\* C37 witness: two start requests overlapped; the first to end replaced a running
\* service while the other was awaiting its last keychain read.
C37_Witness ==
    /\ obs.kind = "start"
    /\ ipc.stopped = 1
    /\ running /\ timers = 1
    /\ \E r \in Requests : ipc.req[r].pc = "creds"

\* C38: the step that ends a successful start request leaves every address with cursor
\* 0 and no seen id, and the first tick at the fetch of the first address with since 0;
\* an address with no seen id is fetched with since 0; and a fetch that returns for an
\* address with no seen id aggregates or submits every fill of the response.
C38_SessionStartsFresh ==
    [][ /\ obs'.kind = "start" =>
             /\ \A a \in AllAddresses :
                   /\ CursorOf(lastTimestampMsByAddress', a) = 0
                   /\ SeenOf(seenFillIdsByAddress', a) = {}
             /\ ticks'[1].pc = "fetch" /\ ticks'[1].idx = 1
             /\ ticks'[1].since = 0 /\ ticks'[1].aggregated = <<>>
        /\ \A t \in Slots :
             (/\ ticks'[t].pc = "fetch"
              /\ ticks[t].pc # "fetch" \/ ticks'[t].idx # ticks[t].idx
              /\ SeenOf(seenFillIdsByAddress', targetAddresses'[ticks'[t].idx]) = {}) =>
                 ticks'[t].since = 0
        /\ (obs'.kind = "fetch" /\ obs'.before = {}) =>
             /\ obs'.prev = 0
             /\ \A i \in 1..Len(obs'.batch) :
                   \/ <<obs'.address, obs'.batch[i].id>> \in obs'.called
                   \/ \E j \in 1..Len(ticks'[obs'.tick].aggregated) :
                         Key(ticks'[obs'.tick].aggregated[j]) = <<obs'.address, obs'.batch[i].id>>
      ]_vars

\* C38 witness: fill 1 of the last address was mirrored in a session; a new session
\* replaced it, and the fetch of its tick returns fill 1 with cursor 0 and no seen id:
\* the fill is mirrored again.
C38_Witness ==
    /\ ipc.stopped = 1
    /\ obs.kind = "fetch"
    /\ obs.address = targetAddresses[Len(targetAddresses)]
    /\ obs.batch = <<GammaFill(1)>>
    /\ obs.prev = 0 /\ obs.before = {}
    /\ obs.called = {<<obs.address, 1>>}
    /\ calls[<<obs.address, 1>>] = 2
====
